---- MODULE Spec2Model ----
(***************************************************************************)
(* A model of minipl-go: the lexer, the symbol table creator (scope        *)
(* analysis), the type checker, the tree-walking interpreter and the       *)
(* driver that chains them.  The abstract syntax tree is carried as        *)
(* records that keep the field names of package ast; every visitor is an   *)
(* operator of the same name as the Go method it is translated from.       *)
(***************************************************************************)
EXTENDS Integers, Sequences, FiniteSets, TLC

(***************************************************************************)
(* Bounds of the model.                                                    *)
(***************************************************************************)
\* Largest number of statements, counted through all loop bodies, of a
\* program handed to the symbol table creator, ...
MaxScopeStmts == 4
\* ... to the type checker, ...
MaxTypeStmts == 3
\* ... and to the interpreter, alone or at the end of the driver's pipeline.
MaxExecStmts == 3
\* Largest number of characters the input reader hands out in a run.
MaxInput == 3
\* Largest number of characters of a source text handed to the lexer.
MaxSrcLen == 4

\* Largest number of calls of GetNextToken made after the characters ran out.
MaxEofCalls == 2

\* Largest number of characters of a source text with string literals.
MaxTextLen == 5

\* Largest number of pieces of a token list handed to the parser.
MaxPieces == 4

\* Largest number of pieces of a token list made of loops and statements.
MaxLoopPieces == 6

(***************************************************************************)
(* token.Position and the nodes of package ast.                            *)
(***************************************************************************)
Position(line, column) == [Line |-> line, Column |-> column]

NoPos == Position(0, 0)

\* A nil ast.Expr (DeclStmt.Expression when no value is assigned).
NilExpr == [node |-> "nil"]

NumberOpnd(value, pos) == [node |-> "NumberOpnd", Value |-> value, Pos |-> pos]

StringOpnd(value, pos) == [node |-> "StringOpnd", Value |-> value, Pos |-> pos]

Ident(id, pos) == [node |-> "Ident", Id |-> id, Pos |-> pos]

NullaryExpr(operand) == [node |-> "NullaryExpr", Operand |-> operand]

UnaryExpr(unary, operand, pos) ==
    [node |-> "UnaryExpr", Unary |-> unary, Operand |-> operand, Pos |-> pos]

BinaryExpr(left, operator, right) ==
    [node |-> "BinaryExpr", Left |-> left, Operator |-> operator, Right |-> right]

DeclStmt(identifier, variableType, expression, pos) ==
    [node |-> "DeclStmt", Identifier |-> identifier,
     VariableType |-> variableType, Expression |-> expression, Pos |-> pos]

AssignStmt(identifier, expression, pos) ==
    [node |-> "AssignStmt", Identifier |-> identifier,
     Expression |-> expression, Pos |-> pos]

ForStmt(index, low, high, statements, pos) ==
    [node |-> "ForStmt", Index |-> index, Low |-> low, High |-> high,
     Statements |-> statements, Pos |-> pos]

ReadStmt(targetIdentifier, pos) ==
    [node |-> "ReadStmt", TargetIdentifier |-> targetIdentifier, Pos |-> pos]

PrintStmt(expression, pos) ==
    [node |-> "PrintStmt", Expression |-> expression, Pos |-> pos]

AssertStmt(expression, pos) ==
    [node |-> "AssertStmt", Expression |-> expression, Pos |-> pos]

\* Node.Position() of every node kind.
RECURSIVE NodePosition(_)
NodePosition(n) ==
    CASE n.node = "BinaryExpr"  -> NodePosition(n.Left)
      [] n.node = "NullaryExpr" -> NodePosition(n.Operand)
      [] OTHER                  -> n.Pos

(***************************************************************************)
(* The positions the parser gives the nodes of a program written one       *)
(* statement per line with one column per token: a statement node gets     *)
(* the position of its first token, an operand that of its own token, a    *)
(* unary expression that of its operator.                                  *)
(***************************************************************************)
\* Number of tokens of an expression.
RECURSIVE ExprWidth(_)
ExprWidth(e) ==
    CASE e.node = "nil"         -> 0
      [] e.node = "NullaryExpr" -> ExprWidth(e.Operand)
      [] e.node = "UnaryExpr"   -> 1 + ExprWidth(e.Operand)
      [] e.node = "BinaryExpr"  -> ExprWidth(e.Left) + 1 + ExprWidth(e.Right)
      [] OTHER                  -> 1

RECURSIVE PlaceExpr(_, _, _)
PlaceExpr(e, l, c) ==
    CASE e.node = "nil"         -> e
      [] e.node = "NullaryExpr" -> NullaryExpr(PlaceExpr(e.Operand, l, c))
      [] e.node = "UnaryExpr"   ->
            UnaryExpr(e.Unary, PlaceExpr(e.Operand, l, c + 1), Position(l, c))
      [] e.node = "BinaryExpr"  ->
            BinaryExpr(PlaceExpr(e.Left, l, c), e.Operator,
                       PlaceExpr(e.Right, l, c + ExprWidth(e.Left) + 1))
      [] OTHER                  -> [e EXCEPT !.Pos = Position(l, c)]

\* Number of statements of a statement list, loop bodies included.
RECURSIVE StmtCount(_)
StmtCount(stmts) ==
    IF stmts = <<>> THEN 0
    ELSE (IF Head(stmts).node = "ForStmt"
          THEN 1 + StmtCount(Head(stmts).Statements) ELSE 1)
         + StmtCount(Tail(stmts))

\* Number of lines of a statement list: one a statement, and one more for
\* the "end for" of a loop.
RECURSIVE LineCount(_)
LineCount(stmts) ==
    IF stmts = <<>> THEN 0
    ELSE (IF Head(stmts).node = "ForStmt"
          THEN 2 + LineCount(Head(stmts).Statements) ELSE 1)
         + LineCount(Tail(stmts))

RECURSIVE PlaceStmts(_, _)
PlaceStmt(s, l) ==
    CASE s.node = "DeclStmt" ->
            \* var x : T := e
            DeclStmt(s.Identifier, s.VariableType,
                     PlaceExpr(s.Expression, l, 6), Position(l, 1))
      [] s.node = "AssignStmt" ->
            \* x := e
            AssignStmt(Ident(s.Identifier.Id, Position(l, 1)),
                       PlaceExpr(s.Expression, l, 3), Position(l, 1))
      [] s.node = "ForStmt" ->
            \* for i in e .. e do
            ForStmt(Ident(s.Index.Id, Position(l, 2)),
                    PlaceExpr(s.Low, l, 4),
                    PlaceExpr(s.High, l, 4 + ExprWidth(s.Low) + 1),
                    PlaceStmts(s.Statements, l + 1), Position(l, 1))
      [] s.node = "ReadStmt" ->
            \* read x
            ReadStmt(Ident(s.TargetIdentifier.Id, Position(l, 2)), Position(l, 1))
      [] s.node = "PrintStmt" ->
            \* print e
            PrintStmt(PlaceExpr(s.Expression, l, 2), Position(l, 1))
      [] s.node = "AssertStmt" ->
            \* assert ( e )
            AssertStmt(PlaceExpr(s.Expression, l, 3), Position(l, 1))

PlaceStmts(stmts, l) ==
    IF stmts = <<>> THEN <<>>
    ELSE <<PlaceStmt(Head(stmts), l)>>
         \o PlaceStmts(Tail(stmts), l + LineCount(<<Head(stmts)>>))

(***************************************************************************)
(* Bounded sets of programs.  A pool names the simple statements and the   *)
(* loop headers a program is built from; Blocks(pool, n) is every          *)
(* statement list of at most n statements over the pool, loops nested to   *)
(* any depth n allows.                                                     *)
(***************************************************************************)
RECURSIVE Blocks(_, _)
Blocks(pool, n) ==
    IF n = 0 THEN {<<>>}
    ELSE {<<>>}
         \cup { <<s>> \o r : s \in pool.simple, r \in Blocks(pool, n - 1) }
         \cup UNION { UNION { { <<ForStmt(h.Index, h.Low, h.High, b, NoPos)>> \o r :
                                  r \in Blocks(pool, n - 1 - StmtCount(b)) } :
                              b \in { bb \in Blocks(pool, n - 1) :
                                        pool.emptyBody \/ bb # <<>> } } :
                      h \in pool.headers }

\* The programs of at most n statements over a pool, positions assigned.
Programs(pool, n) ==
    { PlaceStmts(p, 1) : p \in { b \in Blocks(pool, n) : pool.emptyBody \/ b # <<>> } }

(***************************************************************************)
(* Package symboltable: SymbolTable and SymbolTableCreator.  The creator   *)
(* is the record [symbols, lockedSymbols, errors] of its three fields,     *)
(* threaded through the visitor methods.                                   *)
(***************************************************************************)
\* SymbolTable: the map from a declared name to its Symbol's type.
NewSymbolTable == <<>>

SymbolTableGet(symbols, name) == name \in DOMAIN symbols

SymbolTableInsert(symbols, name, symbolType) ==
    [n \in (DOMAIN symbols) \cup {name} |->
        IF n = name THEN symbolType ELSE symbols[n]]

\* An error of the analysis stages: fmt.Errorf("%s: <msg> ...", position, ...).
Diagnostic(pos, msg, name) == [Pos |-> pos, msg |-> msg, name |-> name]

StcVisitIdent(stc, node) ==
    IF ~SymbolTableGet(stc.symbols, node.Id)
    THEN [stc EXCEPT !.errors =
            Append(@, Diagnostic(node.Pos, "used before declaration", node.Id))]
    ELSE stc

\* Accept on an expression or operand node: BinaryExpr, UnaryExpr,
\* NullaryExpr, NumberOpnd, StringOpnd, Ident.
RECURSIVE StcVisitExpr(_, _)
StcVisitExpr(stc, node) ==
    CASE node.node = "BinaryExpr"  ->
            StcVisitExpr(StcVisitExpr(stc, node.Left), node.Right)
      [] node.node = "UnaryExpr"   -> StcVisitExpr(stc, node.Operand)
      [] node.node = "NullaryExpr" -> StcVisitExpr(stc, node.Operand)
      [] node.node = "Ident"       -> StcVisitIdent(stc, node)
      [] OTHER                     -> stc

\* A VisitDeclStmt that reports the redeclaration and then inserts anyway.
StcVisitDeclStmtOverwrites(stc, node) ==
    [stc EXCEPT
        !.errors = IF SymbolTableGet(stc.symbols, node.Identifier)
                   THEN Append(@, Diagnostic(node.Pos, "redeclaration", node.Identifier))
                   ELSE @,
        !.symbols = SymbolTableInsert(@, node.Identifier, node.VariableType)]

StcVisitDeclStmt(stc, node) ==
    IF SymbolTableGet(stc.symbols, node.Identifier)
    THEN [stc EXCEPT !.errors =
            Append(@, Diagnostic(node.Pos, "redeclaration", node.Identifier))]
    ELSE [stc EXCEPT !.symbols =
            SymbolTableInsert(@, node.Identifier, node.VariableType)]

StcVisitAssignStmt(stc, node) ==
    LET s1 == StcVisitIdent(stc, node.Identifier)
    IN  IF node.Identifier.Id \in s1.lockedSymbols
        THEN [s1 EXCEPT !.errors =
                Append(@, Diagnostic(node.Pos, "cannot modify loop index",
                                     node.Identifier.Id))]
        ELSE s1

StcVisitReadStmt(stc, node) == StcVisitIdent(stc, node.TargetIdentifier)

StcVisitPrintStmt(stc, node) == StcVisitExpr(stc, node.Expression)

StcVisitAssertStmt(stc, node) == StcVisitExpr(stc, node.Expression)

RECURSIVE StcVisitStmts(_, _)
\* A VisitForStmt that leaves its index locked when the loop has ended.
StcVisitForStmtKeepsLock(stc, node) ==
    LET s1 == StcVisitIdent(stc, node.Index)
        s2 == [s1 EXCEPT !.lockedSymbols = @ \cup {node.Index.Id}]
        s3 == StcVisitExpr(s2, node.Low)
        s4 == StcVisitExpr(s3, node.High)
    IN  StcVisitStmts(s4, node.Statements)

StcVisitForStmt(stc, node) ==
    LET s1 == StcVisitIdent(stc, node.Index)
        s2 == [s1 EXCEPT !.lockedSymbols = @ \cup {node.Index.Id}]
        s3 == StcVisitExpr(s2, node.Low)
        s4 == StcVisitExpr(s3, node.High)
        s5 == StcVisitStmts(s4, node.Statements)
    IN  [s5 EXCEPT !.lockedSymbols = @ \ {node.Index.Id}]

\* Accept on a statement node.
StcVisitStmt(stc, node) ==
    CASE node.node = "DeclStmt"   -> StcVisitDeclStmt(stc, node)
      [] node.node = "AssignStmt" -> StcVisitAssignStmt(stc, node)
      [] node.node = "ForStmt"    -> StcVisitForStmt(stc, node)
      [] node.node = "ReadStmt"   -> StcVisitReadStmt(stc, node)
      [] node.node = "PrintStmt"  -> StcVisitPrintStmt(stc, node)
      [] node.node = "AssertStmt" -> StcVisitAssertStmt(stc, node)

StcVisitStmts(stc, stmts) ==
    IF stmts = <<>> THEN stc
    ELSE StcVisitStmts(StcVisitStmt(stc, Head(stmts)), Tail(stmts))

\* SymbolTableCreator.Create on a fresh creator: the creator as it is when
\* Create returns (its symbols and errors are the two results).
Create(root) ==
    StcVisitStmts([symbols |-> NewSymbolTable, lockedSymbols |-> {},
                   errors |-> <<>>], root)

(***************************************************************************)
(* Package stack: a list used as a stack; Pop of an empty stack is nil.    *)
(***************************************************************************)
Nil == "nil"

StackPush(stack, value) == Append(stack, value)

\* The value Pop returns.
StackTop(stack) == IF Len(stack) = 0 THEN Nil ELSE stack[Len(stack)]

\* The stack Pop leaves.
StackRest(stack) == IF Len(stack) = 0 THEN stack ELSE SubSeq(stack, 1, Len(stack) - 1)

(***************************************************************************)
(* Package typechecker.  The checker is the record [stack, symbols,        *)
(* errors] of its fields plus panicked, set when a Go panic (the explicit  *)
(* one of VisitIdent, or a failed type assertion on a popped nil) has      *)
(* unwound the traversal: every later visit is then skipped.               *)
(***************************************************************************)
SymbolTypes == {"INTEGER", "STRING", "BOOLEAN"}

TcError(tc, pos, msg, name) ==
    [tc EXCEPT !.errors = Append(@, Diagnostic(pos, msg, name))]

TcPanic(tc) == [tc EXCEPT !.panicked = TRUE]

TcPush(tc, t) == [tc EXCEPT !.stack = StackPush(@, t)]

\* tc.stack.Pop().(symboltable.SymbolType): the checker after the pop; the
\* assertion panics on nil.  A checker that has panicked does nothing more.
TcPop(tc) ==
    IF tc.panicked THEN tc
    ELSE IF StackTop(tc.stack) \in SymbolTypes
    THEN [tc EXCEPT !.stack = StackRest(@)]
    ELSE TcPanic([tc EXCEPT !.stack = StackRest(@)])

\* if failed { c.errors = append(c.errors, ...) }
TcCheck(tc, failed, pos, msg, name) ==
    IF failed THEN TcError(tc, pos, msg, name) ELSE tc

TcVisitNumberOpnd(tc, node) == TcPush(tc, "INTEGER")

TcVisitStringOpnd(tc, node) == TcPush(tc, "STRING")

TcVisitIdent(tc, node) ==
    IF tc.panicked THEN tc
    ELSE IF ~SymbolTableGet(tc.symbols, node.Id)
    THEN TcPanic(tc)
    ELSE TcPush(tc, tc.symbols[node.Id])

\* A switch that takes the result type of every operator from the left
\* operand and allows + on integers only.
TcOperatorRuleIntOnly(tc, node, left) ==
    TcPush(TcCheck(tc, node.Operator \in {"PLUS", "MINUS", "MULTIPLY", "INTEGER_DIV"}
                         /\ left # "INTEGER",
                   NodePosition(node), "operator not defined for type",
                   node.Operator),
           left)

\* The switch on the operator in VisitBinaryExpr.
TcOperatorRule(tc, node, left) ==
    LET op == node.Operator
        pos == NodePosition(node)
        msg == "operator not defined for type"
    IN  CASE op = "PLUS" ->
                TcPush(TcCheck(tc, left # "INTEGER" /\ left # "STRING", pos, msg, op), left)
          [] op \in {"MINUS", "MULTIPLY", "INTEGER_DIV"} ->
                TcPush(TcCheck(tc, left # "INTEGER", pos, msg, op), left)
          [] op = "AND" ->
                TcPush(TcCheck(tc, left # "BOOLEAN", pos, msg, op), left)
          [] op \in {"LT", "EQ"} -> TcPush(tc, "BOOLEAN")
          [] OTHER -> tc

\* The part of VisitBinaryExpr that follows the two pops.
TcBinaryRule(tc, node, left, right) ==
    IF tc.panicked THEN tc
    ELSE TcOperatorRule(TcCheck(tc, left # right, NodePosition(node),
                                "unmatched types", node.Operator),
                        node, left)

RECURSIVE TcVisitExpr(_, _)
\* right := pop, with the checker as node.Right.Accept left it
TcBinaryRight(tc, node, left) ==
    TcBinaryRule(TcPop(tc), node, left, StackTop(tc.stack))

\* left := pop, with the checker as node.Left.Accept left it
TcBinaryLeft(tc, node) ==
    TcBinaryRight(TcVisitExpr(TcPop(tc), node.Right), node, StackTop(tc.stack))

TcVisitBinaryExpr(tc, node) == TcBinaryLeft(TcVisitExpr(tc, node.Left), node)

\* t := pop, the check of the operator, push(t)
TcUnaryRule(tc, node, t) ==
    IF tc.panicked THEN tc
    ELSE TcPush(TcCheck(tc, node.Unary = "NOT" /\ t # "BOOLEAN", node.Pos,
                        "unary operator not defined for type", "NOT"), t)

TcUnaryOperand(tc, node) == TcUnaryRule(TcPop(tc), node, StackTop(tc.stack))

TcVisitUnaryExpr(tc, node) == TcUnaryOperand(TcVisitExpr(tc, node.Operand), node)

TcVisitNullaryExpr(tc, node) == TcVisitExpr(tc, node.Operand)

\* Accept on an expression or operand node.
TcVisitExpr(tc, node) ==
    IF tc.panicked THEN tc
    ELSE CASE node.node = "BinaryExpr"  -> TcVisitBinaryExpr(tc, node)
           [] node.node = "UnaryExpr"   -> TcVisitUnaryExpr(tc, node)
           [] node.node = "NullaryExpr" -> TcVisitNullaryExpr(tc, node)
           [] node.node = "NumberOpnd"  -> TcVisitNumberOpnd(tc, node)
           [] node.node = "StringOpnd"  -> TcVisitStringOpnd(tc, node)
           [] node.node = "Ident"       -> TcVisitIdent(tc, node)

\* rhsType := pop and the comparison with the declared type
TcDeclRule(tc, node, rhsType) ==
    IF tc.panicked THEN tc
    ELSE TcCheck(tc, node.VariableType # rhsType, node.Pos,
                 "cannot assign type", node.Identifier)

TcDeclExpression(tc, node) == TcDeclRule(TcPop(tc), node, StackTop(tc.stack))

TcVisitDeclStmt(tc, node) ==
    IF node.Expression = NilExpr THEN tc
    ELSE TcDeclExpression(TcVisitExpr(tc, node.Expression), node)

TcAssignRule(tc, node, idType, exprType) ==
    IF tc.panicked THEN tc
    ELSE TcCheck(tc, exprType # idType, node.Pos,
                 "cannot assign type", node.Identifier.Id)

\* exprType := pop
TcAssignExpression(tc, node, idType) ==
    TcAssignRule(TcPop(tc), node, idType, StackTop(tc.stack))

\* idType := pop
TcAssignIdentifier(tc, node) ==
    TcAssignExpression(TcVisitExpr(TcPop(tc), node.Expression), node,
                       StackTop(tc.stack))

TcVisitAssignStmt(tc, node) ==
    TcAssignIdentifier(TcVisitIdent(tc, node.Identifier), node)

\* The three checks of VisitForStmt.  node.Statements is not visited.
TcForRule(tc, node, indexType, lowType, highType) ==
    IF tc.panicked THEN tc
    ELSE TcCheck(TcCheck(TcCheck(tc,
            indexType # "INTEGER", node.Pos, "loop index must be int", node.Index.Id),
            lowType # "INTEGER", node.Pos, "lower bound must be int", node.Index.Id),
            highType # "INTEGER", node.Pos, "upper bound must be int", node.Index.Id)

\* highType := pop
TcForHigh(tc, node, indexType, lowType) ==
    TcForRule(TcPop(tc), node, indexType, lowType, StackTop(tc.stack))

\* lowType := pop
TcForLow(tc, node, indexType) ==
    TcForHigh(TcVisitExpr(TcPop(tc), node.High), node, indexType,
              StackTop(tc.stack))

\* indexType := pop
TcForIndex(tc, node) ==
    TcForLow(TcVisitExpr(TcPop(tc), node.Low), node, StackTop(tc.stack))

TcVisitForStmt(tc, node) == TcForIndex(TcVisitIdent(tc, node.Index), node)

TcVisitReadStmt(tc, node) == tc

\* The expression's type stays on the stack.
TcVisitPrintStmt(tc, node) == TcVisitExpr(tc, node.Expression)

TcAssertRule(tc, node, exprType) ==
    IF tc.panicked THEN tc
    ELSE TcCheck(tc, exprType # "BOOLEAN", node.Pos,
                 "assert is only defined for bool", "")

TcAssertExpression(tc, node) == TcAssertRule(TcPop(tc), node, StackTop(tc.stack))

TcVisitAssertStmt(tc, node) ==
    TcAssertExpression(TcVisitExpr(tc, node.Expression), node)

\* Accept on a statement node.
TcVisitStmt(tc, node) ==
    CASE node.node = "DeclStmt"   -> TcVisitDeclStmt(tc, node)
      [] node.node = "AssignStmt" -> TcVisitAssignStmt(tc, node)
      [] node.node = "ForStmt"    -> TcVisitForStmt(tc, node)
      [] node.node = "ReadStmt"   -> TcVisitReadStmt(tc, node)
      [] node.node = "PrintStmt"  -> TcVisitPrintStmt(tc, node)
      [] node.node = "AssertStmt" -> TcVisitAssertStmt(tc, node)

RECURSIVE TcVisitStmts(_, _)
TcVisitStmts(tc, stmts) ==
    IF stmts = <<>> \/ tc.panicked THEN tc
    ELSE TcVisitStmts(TcVisitStmt(tc, Head(stmts)), Tail(stmts))

\* typechecker.New(symbols) followed by CheckTypes(root): the checker as it
\* is when CheckTypes returns, or panics.
CheckTypes(symbols, root) ==
    TcVisitStmts([stack |-> <<>>, symbols |-> symbols, errors |-> <<>>,
                  panicked |-> FALSE], root)

(***************************************************************************)
(* Runtime values of the interpreter (Go interface{} holding an int, a     *)
(* string, a bool or nil).  A string is the sequence of its characters.    *)
(***************************************************************************)
IntV(n) == [t |-> "int", i |-> n, s |-> <<>>, b |-> FALSE]

StrV(str) == [t |-> "string", i |-> 0, s |-> str, b |-> FALSE]

BoolV(bool) == [t |-> "bool", i |-> 0, s |-> <<>>, b |-> bool]

NilV == [t |-> "nil", i |-> 0, s |-> <<>>, b |-> FALSE]

\* Go's integer division truncates toward zero.
GoDiv(l, r) ==
    LET al == IF l < 0 THEN -l ELSE l
        ar == IF r < 0 THEN -r ELSE r
        q  == al \div ar
    IN  IF (l < 0) = (r < 0) THEN q ELSE -q

DigitChars == <<"0", "1", "2", "3", "4", "5", "6", "7", "8", "9">>

\* The decimal digits of n >= 0.
RECURSIVE Digits(_)
Digits(n) ==
    IF n < 10 THEN <<DigitChars[n + 1]>>
    ELSE Digits(n \div 10) \o <<DigitChars[(n % 10) + 1]>>

\* fmt.Fprint of a runtime value.
Format(v) ==
    CASE v.t = "int"    -> IF v.i < 0 THEN <<"-">> \o Digits(-v.i) ELSE Digits(v.i)
      [] v.t = "string" -> v.s
      [] v.t = "bool"   -> IF v.b THEN <<"t", "r", "u", "e">>
                                  ELSE <<"f", "a", "l", "s", "e">>
      [] OTHER          -> <<"<", "n", "i", "l", ">">>

IsDigit(c) == \E k \in 1..10 : DigitChars[k] = c

DigitValue(c) == (CHOOSE k \in 1..10 : DigitChars[k] = c) - 1

RECURSIVE DigitsValue(_)
DigitsValue(str) ==
    IF str = <<>> THEN 0
    ELSE 10 * DigitsValue(SubSeq(str, 1, Len(str) - 1)) + DigitValue(str[Len(str)])

\* strconv.Atoi: an optional sign and one or more decimal digits.
Atoi(str) ==
    LET signed == str # <<>> /\ str[1] \in {"+", "-"}
        body   == IF signed THEN Tail(str) ELSE str
    IN  IF body = <<>> \/ \E k \in 1..Len(body) : ~IsDigit(body[k])
        THEN [ok |-> FALSE, n |-> 0]
        ELSE [ok |-> TRUE,
              n |-> IF signed /\ str[1] = "-" THEN -DigitsValue(body)
                    ELSE DigitsValue(body)]

\* strings.Trim(str, "\n").
RECURSIVE TrimNewlines(_)
TrimNewlines(str) ==
    IF str # <<>> /\ str[1] = "\n" THEN TrimNewlines(Tail(str))
    ELSE IF str # <<>> /\ str[Len(str)] = "\n"
    THEN TrimNewlines(SubSeq(str, 1, Len(str) - 1))
    ELSE str

(***************************************************************************)
(* Package interpreter: expression evaluation.  An evaluation is the       *)
(* record [stack, panicked]: the evaluation stack and the Go panic that    *)
(* has unwound it ("" when none).                                          *)
(***************************************************************************)
NoPanic == ""

EvPush(ev, v) == [ev EXCEPT !.stack = StackPush(@, v)]

EvPop(ev) == [ev EXCEPT !.stack = StackRest(@)]

EvTop(ev) == IF Len(ev.stack) = 0 THEN NilV ELSE ev.stack[Len(ev.stack)]

EvPanic(ev, what) == [ev EXCEPT !.panicked = what]

\* i.variables[name]: nil when the map holds nothing for name.
VariableGet(variables, name) ==
    IF name \in DOMAIN variables THEN variables[name] ELSE NilV

\* i.variables[name] = value.
VariableSet(variables, name, value) ==
    [n \in (DOMAIN variables) \cup {name} |->
        IF n = name THEN value ELSE variables[n]]

InterpVisitNumberOpnd(ev, node) == EvPush(ev, IntV(node.Value))

InterpVisitStringOpnd(ev, node) == EvPush(ev, StrV(node.Value))

InterpVisitIdent(ev, variables, node) == EvPush(ev, VariableGet(variables, node.Id))

\* The switch of VisitBinaryExpr on the two popped values.
BinaryOperation(ev, operator, left, right) ==
    LET ints == left.t = "int" /\ right.t = "int"
        unsupportedOperands == EvPanic(ev, "unsupported operands")
    IN  CASE operator = "PLUS" ->
                IF ints THEN EvPush(ev, IntV(left.i + right.i))
                ELSE IF left.t = "string" /\ right.t = "string"
                THEN EvPush(ev, StrV(left.s \o right.s))
                ELSE unsupportedOperands
          [] operator = "MINUS" ->
                IF ints THEN EvPush(ev, IntV(left.i - right.i)) ELSE unsupportedOperands
          [] operator = "INTEGER_DIV" ->
                IF ints
                THEN IF right.i = 0 THEN EvPanic(ev, "integer divide by zero")
                     ELSE EvPush(ev, IntV(GoDiv(left.i, right.i)))
                ELSE unsupportedOperands
          [] operator = "MULTIPLY" ->
                IF ints THEN EvPush(ev, IntV(left.i * right.i)) ELSE unsupportedOperands
          [] operator = "AND" ->
                IF left.t = "bool" /\ right.t = "bool"
                THEN EvPush(ev, BoolV(left.b /\ right.b))
                ELSE unsupportedOperands
          [] operator = "LT" ->
                IF ints THEN EvPush(ev, BoolV(left.i < right.i)) ELSE unsupportedOperands
          [] operator = "EQ" -> EvPush(ev, BoolV(left = right))
          [] OTHER -> EvPanic(ev, "unsupported operator")

RECURSIVE InterpVisitExpr(_, _, _)
InterpVisitBinaryExpr(ev, variables, node) ==
    LET e1 == InterpVisitExpr(ev, variables, node.Left)
        left == EvTop(e1)
        e2 == IF e1.panicked # NoPanic THEN e1
              ELSE InterpVisitExpr(EvPop(e1), variables, node.Right)
        right == EvTop(e2)
    IN  IF e2.panicked # NoPanic THEN e2
        ELSE BinaryOperation(EvPop(e2), node.Operator, left, right)

InterpVisitUnaryExpr(ev, variables, node) ==
    LET e1 == InterpVisitExpr(ev, variables, node.Operand)
        val == EvTop(e1)
    IN  IF e1.panicked # NoPanic THEN e1
        ELSE IF node.Unary = "NOT"
        THEN IF val.t = "bool" THEN EvPush(EvPop(e1), BoolV(~val.b))
             ELSE EvPanic(EvPop(e1), "type assertion")
        ELSE EvPanic(EvPop(e1), "unsupported unary")

InterpVisitNullaryExpr(ev, variables, node) ==
    InterpVisitExpr(ev, variables, node.Operand)

\* Accept on an expression or operand node.
InterpVisitExpr(ev, variables, node) ==
    CASE node.node = "BinaryExpr"  -> InterpVisitBinaryExpr(ev, variables, node)
      [] node.node = "UnaryExpr"   -> InterpVisitUnaryExpr(ev, variables, node)
      [] node.node = "NullaryExpr" -> InterpVisitNullaryExpr(ev, variables, node)
      [] node.node = "NumberOpnd"  -> InterpVisitNumberOpnd(ev, node)
      [] node.node = "StringOpnd"  -> InterpVisitStringOpnd(ev, node)
      [] node.node = "Ident"       -> InterpVisitIdent(ev, variables, node)

\* node.Accept(i) on an expression from a statement, the stack as it is
\* between statements.
Evaluate(stk, variables, node) ==
    InterpVisitExpr([stack |-> stk, panicked |-> NoPanic], variables, node)

(***************************************************************************)
(* The state.                                                              *)
(***************************************************************************)
VARIABLES
    prog,       \* the statements of the ast.Prog under analysis / execution
    stage,      \* where frontEnd.Execute is: "parse", "scope", "types", "run"
    results,    \* history: the stages invoked so far, each with its errors
    symbols,    \* the SymbolTable that Create returned
    out,        \* everything written to the output sink, in order
    status,     \* the process: "running", "returned", "exit1" or a panic
    variables,  \* Interpreter.variables
    stack,      \* Interpreter.stack
    frames,     \* the interpreter's call stack: one frame a VisitStmts call
    stdin,      \* history: the bytes the input reader has handed out so far
    eof,        \* whether the input reader has reported the end of input
    trace,      \* history: the positions of the statements executed so far
    readLog,    \* history: the string each executed read got from ReadString
    loopLog,    \* history: the loops that ran to completion
    lexer,      \* the Lexer
    tokens,     \* history: the token and position of every GetNextToken call
    scanning,   \* the running GetNextToken call: "returned" or "diverged"
    pieces,     \* history: the pieces of text whose tokens the parser is given
    parser      \* the Parser, and what Parse returned

vars == <<prog, stage, results, symbols, out, status, variables, stack,
          frames, stdin, eof, trace, readLog, loopLog, lexer, tokens, scanning,
          pieces, parser>>

lexVars == <<lexer, tokens, scanning>>

parseVars == <<pieces, parser>>

interpVars == <<variables, stack, frames, stdin, eof, trace, readLog, loopLog>>

(***************************************************************************)
(* What is written to the output sink.                                     *)
(***************************************************************************)
Write(kind, pos, msg, name, text) ==
    [kind |-> kind, Pos |-> pos, msg |-> msg, name |-> name, text |-> text]

\* fmt.Fprint(i.outputWriter, value).
PrintWrite(value) == Write("print", NoPos, "", "", Format(value))

\* The message of a terminate call: "<pos>: runtime error: <msg>".
RuntimeError(pos, msg) == Write("runtime error", pos, msg, "", <<>>)

\* fmt.Fprintln(fe.out, err) for every error of a stage.
PrintErrors(sink, errors) ==
    sink \o [k \in 1..Len(errors) |->
                Write("diagnostic", errors[k].Pos, errors[k].msg, errors[k].name, <<>>)]

(***************************************************************************)
(* Package interpreter: statements.  The interpreter is the record         *)
(* [stack, variables, out, status]; a statement visitor maps it to the     *)
(* interpreter it leaves.                                                  *)
(***************************************************************************)
\* A Go panic unwinding the interpreter: the process dies with a stack
\* trace on standard error, nothing is written to the output sink.
Crash(i, what) == [i EXCEPT !.status = what, !.stack = <<>>]

\* A terminate that writes the message and lets the run go on.
terminateAndGoOn(i, message) == [i EXCEPT !.out = Append(@, message)]

\* fmt.Fprintln(i.outputWriter, message); os.Exit(1).
terminate(i, message) ==
    [i EXCEPT !.out = Append(@, message), !.status = "exit1"]

InterpVisitAssignStmt(i, node) ==
    LET ev == Evaluate(i.stack, i.variables, node.Expression)
    IN  IF ev.panicked # NoPanic THEN Crash(i, ev.panicked)
        ELSE [i EXCEPT !.stack = EvPop(ev).stack,
                       !.variables = VariableSet(@, node.Identifier.Id, EvTop(ev))]

\* The zero value VisitDeclStmt binds when the declaration has no expression.
ZeroValue(typ) ==
    IF typ = "INTEGER" THEN IntV(0)
    ELSE IF typ = "STRING" THEN StrV(<<>>)
    ELSE BoolV(FALSE)

InterpVisitDeclStmt(i, node) ==
    IF node.Expression # NilExpr
    THEN LET ev == Evaluate(i.stack, i.variables, node.Expression)
         IN  IF ev.panicked # NoPanic THEN Crash(i, ev.panicked)
             ELSE [i EXCEPT !.stack = EvPop(ev).stack,
                            !.variables = VariableSet(@, node.Identifier, EvTop(ev))]
    ELSE [i EXCEPT !.variables =
            VariableSet(@, node.Identifier, ZeroValue(node.VariableType))]

InterpVisitPrintStmt(i, node) ==
    LET ev == Evaluate(i.stack, i.variables, node.Expression)
    IN  IF ev.panicked # NoPanic THEN Crash(i, ev.panicked)
        ELSE [i EXCEPT !.stack = EvPop(ev).stack,
                       !.out = Append(@, PrintWrite(EvTop(ev)))]

InterpVisitAssertStmt(i, node) ==
    LET ev == Evaluate(i.stack, i.variables, node.Expression)
        i1 == [i EXCEPT !.stack = EvPop(ev).stack]
    IN  IF ev.panicked # NoPanic THEN Crash(i, ev.panicked)
        ELSE IF EvTop(ev).t # "bool" THEN Crash(i, "type assertion")
        ELSE IF ~EvTop(ev).b
        THEN terminate(i1, RuntimeError(node.Pos, "assert failed"))
        ELSE i1

\* bufio.Reader.ReadString('\n') on a fresh reader that pulls `data` from
\* the input: the string up to and including the first newline, or all of
\* data and an error when the input ended first.
ReadString(data) ==
    IF \E k \in 1..Len(data) : data[k] = "\n"
    THEN [str |-> SubSeq(data, 1, CHOOSE k \in 1..Len(data) :
                            /\ data[k] = "\n"
                            /\ \A m \in 1..(k - 1) : data[m] # "\n"),
          err |-> FALSE]
    ELSE [str |-> data, err |-> TRUE]

\* VisitReadStmt, given what the fresh bufio.Reader pulled from the input.
InterpVisitReadStmt(i, node, data) ==
    LET varName == node.TargetIdentifier.Id
        x == VariableGet(i.variables, varName)
        r == ReadString(data)
        n == Atoi(TrimNewlines(r.str))
    IN  IF x.t = "int"
        THEN IF ~n.ok
             THEN terminate(i, RuntimeError(node.Pos, "failed to parse integer"))
             ELSE [i EXCEPT !.variables = VariableSet(@, varName, IntV(n.n))]
        ELSE IF x.t = "string"
        THEN IF r.err
             THEN terminate(i, RuntimeError(node.Pos, "failed to parse string"))
             ELSE [i EXCEPT !.variables = VariableSet(@, varName, StrV(r.str))]
        ELSE terminate(i, RuntimeError(node.Pos, "could not read user input"))

\* The two bounds of VisitForStmt: low := pop().(int), high := pop().(int).
ForBounds(i, node) ==
    LET lo == Evaluate(i.stack, i.variables, node.Low)
        hi == Evaluate(EvPop(lo).stack, i.variables, node.High)
    IN  IF lo.panicked # NoPanic THEN [panicked |-> lo.panicked, low |-> 0, high |-> 0]
        ELSE IF EvTop(lo).t # "int" THEN [panicked |-> "type assertion", low |-> 0, high |-> 0]
        ELSE IF hi.panicked # NoPanic THEN [panicked |-> hi.panicked, low |-> 0, high |-> 0]
        ELSE IF EvTop(hi).t # "int" THEN [panicked |-> "type assertion", low |-> 0, high |-> 0]
        ELSE [panicked |-> NoPanic, low |-> EvTop(lo).i, high |-> EvTop(hi).i]

\* A loop whose upper bound is inclusive.
LoopConditionInclusive(j, high) == j <= high

\* The condition j < high of the loop of VisitForStmt.
LoopCondition(j, high) == j < high

(***************************************************************************)
(* The interpreter's control: a frame is one running VisitStmts call, the  *)
(* loop frame of a VisitForStmt carrying its locals j and high.            *)
(***************************************************************************)
Frame(stmts, loop, pos, idx, j, high) ==
    [stmts |-> stmts, pc |-> 1, loop |-> loop, Pos |-> pos, idx |-> idx,
     j |-> j, high |-> high,
     \* history: the bounds as evaluated on entry, the index values bound so far
     low0 |-> j, high0 |-> high, bound |-> IF loop THEN <<j>> ELSE <<>>]

RootFrame(stmts) == Frame(stmts, FALSE, NoPos, "", 0, 0)

Top == frames[Len(frames)]

\* The interpreter is about to visit a statement.
AtStmt ==
    /\ stage = "run"
    /\ status = "running"
    /\ Top.pc <= Len(Top.stmts)

Current == Top.stmts[Top.pc]

TheInterpreter == [stack |-> stack, variables |-> variables, out |-> out, status |-> status]

\* The interpreter becomes i; the current VisitStmts call moves on.
Step(i) ==
    /\ stack' = i.stack
    /\ variables' = i.variables
    /\ out' = i.out
    /\ status' = i.status
    /\ trace' = Append(trace, Current.Pos)
    /\ UNCHANGED <<prog, stage, results, symbols>>
    /\ UNCHANGED lexVars
    /\ UNCHANGED parseVars

Advance == frames' = [frames EXCEPT ![Len(frames)].pc = @ + 1]

ExecDeclStmt ==
    /\ AtStmt /\ Current.node = "DeclStmt"
    /\ Step(InterpVisitDeclStmt(TheInterpreter, Current))
    /\ Advance
    /\ UNCHANGED <<stdin, eof, readLog, loopLog>>

ExecAssignStmt ==
    /\ AtStmt /\ Current.node = "AssignStmt"
    /\ Step(InterpVisitAssignStmt(TheInterpreter, Current))
    /\ Advance
    /\ UNCHANGED <<stdin, eof, readLog, loopLog>>

ExecPrintStmt ==
    /\ AtStmt /\ Current.node = "PrintStmt"
    /\ Step(InterpVisitPrintStmt(TheInterpreter, Current))
    /\ Advance
    /\ UNCHANGED <<stdin, eof, readLog, loopLog>>

ExecAssertStmt ==
    /\ AtStmt /\ Current.node = "AssertStmt"
    /\ Step(InterpVisitAssertStmt(TheInterpreter, Current))
    /\ Advance
    /\ UNCHANGED <<stdin, eof, readLog, loopLog>>

InputChars == {"1", "a", "\n"}

\* Every string over InputChars of length at most n.
RECURSIVE InputStrings(_)
InputStrings(n) ==
    IF n = 0 THEN {<<>>}
    ELSE InputStrings(n - 1)
         \cup { Append(str, c) : str \in InputStrings(n - 1), c \in InputChars }

\* What a fresh bufio.Reader may pull from the input reader during one
\* ReadString('\n'): it reads whole chunks until one holds a newline, which
\* may hold more bytes after it, or until the input ends.
Pulls ==
    IF eof THEN {[data |-> <<>>, eof |-> TRUE]}
    ELSE { [data |-> d, eof |-> e] :
             d \in InputStrings(MaxInput - Len(stdin)), e \in BOOLEAN } 

ExecReadStmt ==
    /\ AtStmt /\ Current.node = "ReadStmt"
    /\ IF VariableGet(variables, Current.TargetIdentifier.Id).t \in {"int", "string"}
       THEN \E p \in Pulls :
              /\ p.eof = ReadString(p.data).err
              /\ Step(InterpVisitReadStmt(TheInterpreter, Current, p.data))
              /\ stdin' = stdin \o p.data
              /\ eof' = p.eof
              /\ readLog' = Append(readLog, ReadString(p.data).str)
       ELSE /\ Step(InterpVisitReadStmt(TheInterpreter, Current, <<>>))
            /\ UNCHANGED <<stdin, eof, readLog>>
    /\ Advance
    /\ UNCHANGED loopLog

\* VisitForStmt up to the first test of the loop condition.
ExecForStmt ==
    /\ AtStmt /\ Current.node = "ForStmt"
    /\ LET b == ForBounds(TheInterpreter, Current)
           idx == Current.Index.Id
       IN  IF b.panicked # NoPanic
           THEN /\ Step(Crash(TheInterpreter, b.panicked))
                /\ UNCHANGED <<frames, loopLog>>
           ELSE IF LoopCondition(b.low, b.high)
           THEN /\ Step([TheInterpreter EXCEPT
                            !.variables = VariableSet(@, idx, IntV(b.low))])
                /\ frames' = Append(frames, Frame(Current.Statements, TRUE,
                                                  Current.Pos, idx, b.low, b.high))
                /\ UNCHANGED loopLog
           ELSE /\ Step(TheInterpreter)
                /\ Advance
                /\ loopLog' = Append(loopLog, [Pos |-> Current.Pos, low |-> b.low,
                                               high |-> b.high, bound |-> <<>>])
    /\ UNCHANGED <<stdin, eof, readLog>>

\* A loop whose bound moves up by one with every j++.
ForNextExtendsBound ==
    /\ stage = "run" /\ status = "running"
    /\ Top.loop /\ Top.pc > Len(Top.stmts)
    /\ variables' = VariableSet(variables, Top.idx, IntV(Top.j + 1))
    /\ frames' = [frames EXCEPT ![Len(frames)] =
                    [Top EXCEPT !.j = @ + 1, !.high = @ + 1, !.pc = 1,
                                !.bound = Append(@, Top.j + 1)]]
    /\ UNCHANGED lexVars
    /\ UNCHANGED parseVars
    /\ UNCHANGED <<prog, stage, results, symbols, out, status, stack, stdin, eof,
                   trace, readLog, loopLog>>

\* The body of a loop has been visited: j++ and the next test.
ForNext ==
    /\ stage = "run" /\ status = "running"
    /\ Top.loop /\ Top.pc > Len(Top.stmts)
    /\ LET f == Top
           j == f.j + 1
       IN  IF LoopCondition(j, f.high)
           THEN /\ variables' = VariableSet(variables, f.idx, IntV(j))
                /\ frames' = [frames EXCEPT ![Len(frames)] =
                                [f EXCEPT !.j = j, !.pc = 1, !.bound = Append(@, j)]]
                /\ UNCHANGED loopLog
           ELSE /\ frames' = [SubSeq(frames, 1, Len(frames) - 1)
                                EXCEPT ![Len(frames) - 1].pc = @ + 1]
                /\ loopLog' = Append(loopLog, [Pos |-> f.Pos, low |-> f.low0,
                                               high |-> f.high0, bound |-> f.bound])
                /\ UNCHANGED variables
    /\ UNCHANGED lexVars
    /\ UNCHANGED parseVars
    /\ UNCHANGED <<prog, stage, results, symbols, out, status, stack, stdin, eof,
                   trace, readLog>>

\* Run returns: every statement of the program has been visited.
RunReturns ==
    /\ stage = "run" /\ status = "running"
    /\ Len(frames) = 1 /\ Top.pc > Len(Top.stmts)
    /\ status' = "returned"
    /\ UNCHANGED lexVars
    /\ UNCHANGED parseVars
    /\ UNCHANGED <<prog, stage, results, symbols, out, variables, stack, frames,
                   stdin, eof, trace, readLog, loopLog>>

Interpret ==
    \/ ExecDeclStmt
    \/ ExecAssignStmt
    \/ ExecPrintStmt
    \/ ExecAssertStmt
    \/ ExecReadStmt
    \/ ExecForStmt
    \/ ForNext
    \/ RunReturns

(***************************************************************************)
(* package token and package lexer.  A source text is a sequence of        *)
(* one-character strings; the rune 0 of an empty Lexer is "".              *)
(***************************************************************************)
Token(tag, lexeme) == [tag |-> tag, lexeme |-> lexeme]

\* The token that skipBlockComment returns for a comment that was closed.
NilToken == Token("nil", <<>>)

Letters == {"a", "b", "c", "d", "e", "f", "g", "h", "i", "j", "k", "l", "m",
            "n", "o", "p", "q", "r", "s", "t", "u", "v", "w", "x", "y", "z"}

IsLetter(c) == c \in Letters

IsNumber(c) == IsDigit(c)

IsSpace(c) == c \in {" ", "\t", "\n", "\r"}

reservedKeywords ==
    { <<<<"v", "a", "r">>, "VAR">>, <<<<"f", "o", "r">>, "FOR">>,
      <<<<"e", "n", "d">>, "END">>, <<<<"i", "n">>, "IN">>,
      <<<<"d", "o">>, "DO">>, <<<<"r", "e", "a", "d">>, "READ">>,
      <<<<"p", "r", "i", "n", "t">>, "PRINT">>, <<<<"i", "n", "t">>, "INTEGER">>,
      <<<<"s", "t", "r", "i", "n", "g">>, "STRING">>,
      <<<<"b", "o", "o", "l">>, "BOOLEAN">>,
      <<<<"a", "s", "s", "e", "r", "t">>, "ASSERT">> }

LexerNew(sourceCode) ==
    [sourceCode |-> sourceCode,
     currentChar |-> IF Len(sourceCode) = 0 THEN "" ELSE sourceCode[1],
     pos |-> 0,
     eof |-> Len(sourceCode) = 0,
     tokenPos |-> Position(1, 1)]

\* A variant of advance that goes on counting columns across a newline.
advanceKeepsColumn(l) ==
    IF l.pos + 1 > Len(l.sourceCode) - 1
    THEN [l EXCEPT !.pos = @ + 1, !.eof = TRUE]
    ELSE [l EXCEPT !.pos = @ + 1,
                   !.tokenPos = IF l.currentChar = "\n"
                                THEN Position(@.Line + 1, @.Column + 1)
                                ELSE Position(@.Line, @.Column + 1),
                   !.currentChar = l.sourceCode[l.pos + 2]]

advance(l) ==
    IF l.pos + 1 > Len(l.sourceCode) - 1
    THEN [l EXCEPT !.pos = @ + 1, !.eof = TRUE]
    ELSE [l EXCEPT !.pos = @ + 1,
                   !.tokenPos = IF l.currentChar = "\n"
                                THEN Position(@.Line + 1, 1)
                                ELSE Position(@.Line, @.Column + 1),
                   !.currentChar = l.sourceCode[l.pos + 2]]

peek(l) ==
    IF l.pos + 1 > Len(l.sourceCode) - 1
    THEN [next |-> "", eof |-> TRUE]
    ELSE [next |-> l.sourceCode[l.pos + 2], eof |-> FALSE]

\* What a scanning function gives: the lexer it leaves, the token and the
\* position it returns, or the fact that it never returns.
Scanned(l, tok, pos) == [l |-> l, tok |-> tok, Pos |-> pos, diverged |-> FALSE]

Diverged(l) == [l |-> l, tok |-> NilToken, Pos |-> NoPos, diverged |-> TRUE]

RECURSIVE skipWhitespace(_)
skipWhitespace(l) ==
    IF ~l.eof /\ IsSpace(l.currentChar) THEN skipWhitespace(advance(l)) ELSE l

RECURSIVE ToEndOfLine(_)
\* for !l.eof && l.currentChar != '\n' { l.advance() }
ToEndOfLine(l) ==
    IF ~l.eof /\ l.currentChar # "\n" THEN ToEndOfLine(advance(l)) ELSE l

skipLineComment(l) == advance(ToEndOfLine(advance(advance(l))))

RECURSIVE BlockCommentLoop(_, _)
\* The loop of skipBlockComment.  At a '*' that is the last character of
\* the source, peek reports the end, no branch advances and l.eof stays
\* false: the iteration changes nothing and the loop never ends.
BlockCommentLoop(l, pos) ==
    IF l.eof
    THEN Scanned(l, Token("ERROR", "Unterminated block comment"), pos)
    ELSE IF l.currentChar # "*" THEN BlockCommentLoop(advance(l), pos)
    ELSE IF ~peek(l).eof /\ peek(l).next = "/"
    THEN Scanned(advance(advance(l)), NilToken, pos)
    ELSE IF ~peek(l).eof THEN BlockCommentLoop(advance(l), pos)
    ELSE Diverged(l)

skipBlockComment(l) == BlockCommentLoop(advance(advance(l)), l.tokenPos)

RECURSIVE IdentLoop(_, _, _)
\* The loop of ident.  Once l.eof is set advance changes neither it nor
\* currentChar, so a condition that holds then holds for ever.
IdentLoop(l, id, pos) ==
    IF (~l.eof /\ (IsNumber(l.currentChar) \/ IsLetter(l.currentChar)))
           \/ l.currentChar = "_"
    THEN IF l.eof THEN Diverged(l)
         ELSE IdentLoop(advance(l), Append(id, l.currentChar), pos)
    ELSE IF \E kw \in reservedKeywords : kw[1] = id
    THEN Scanned(l, Token((CHOOSE kw \in reservedKeywords : kw[1] = id)[2], <<>>), pos)
    ELSE Scanned(l, Token("IDENT", id), pos)

ident(l) == IdentLoop(l, <<>>, l.tokenPos)

RECURSIVE NumberLoop(_, _, _)
NumberLoop(l, numString, pos) ==
    IF ~l.eof /\ IsNumber(l.currentChar)
    THEN NumberLoop(advance(l), Append(numString, l.currentChar), pos)
    ELSE Scanned(l, Token("INTEGER_LITERAL", numString), pos)

number(l) == NumberLoop(l, <<>>, l.tokenPos)

Escape(c) == CASE c = "n" -> "\n" [] c = "t" -> "\t" [] c = "r" -> "\r" [] OTHER -> c

RECURSIVE StringLoop(_, _, _)
StringLoop(l, str, pos) ==
    IF l.eof \/ l.currentChar \in {"\n", "\r"}
    THEN Scanned(l, Token("ERROR", <<"unterminated string literal", str>>), pos)
    ELSE IF l.currentChar = "\\"
    THEN StringLoop(advance(advance(l)),
                    Append(str, Escape(advance(l).currentChar)), pos)
    ELSE IF l.currentChar = "\""
    THEN Scanned(advance(l), Token("STRING_LITERAL", str), pos)
    ELSE StringLoop(advance(l), Append(str, l.currentChar), pos)

string(l) == StringLoop(advance(l), <<>>, l.tokenPos)

\* The one-character tokens of GetNextToken.
Punctuation ==
    { <<";", "SEMI">>, <<"!", "NOT">>, <<"+", "PLUS">>, <<"-", "MINUS">>,
      <<"*", "MULTIPLY">>, <<"<", "LT">>, <<"=", "EQ">>, <<"&", "AND">>,
      <<"(", "LPAREN">>, <<")", "RPAREN">> }

RECURSIVE GetNextToken(_)
\* A variant of EndOfInput that starts over at the first character.
EndOfInputRewinds(l) ==
    Scanned(LexerNew(l.sourceCode), Token("EOF", <<>>), l.tokenPos)

\* GetNextToken's answer when the end of the input has been reached.
EndOfInput(l) == Scanned(l, Token("EOF", <<>>), l.tokenPos)

GetNextToken(l) ==
    LET pos == l.tokenPos
        c   == l.currentChar
        nxt == peek(l)
    IN  IF l.eof THEN EndOfInput(l)
        ELSE IF IsSpace(c) THEN GetNextToken(skipWhitespace(l))
        ELSE IF IsLetter(c) THEN ident(l)
        ELSE IF IsNumber(c) THEN number(l)
        ELSE IF c = "/" /\ ~nxt.eof /\ nxt.next = "/"
        THEN GetNextToken(skipLineComment(l))
        ELSE IF c = "/" /\ ~nxt.eof /\ nxt.next = "*"
        THEN IF skipBlockComment(l).diverged \/ skipBlockComment(l).tok # NilToken
             THEN skipBlockComment(l)
             ELSE GetNextToken(skipBlockComment(l).l)
        ELSE IF c = "/" THEN Scanned(advance(l), Token("INTEGER_DIV", <<>>), pos)
        ELSE IF c = "\"" THEN string(l)
        ELSE IF c = ":" /\ ~nxt.eof /\ nxt.next = "="
        THEN Scanned(advance(advance(l)), Token("ASSIGN", <<>>), pos)
        ELSE IF c = ":" THEN Scanned(advance(l), Token("COLON", <<>>), pos)
        ELSE IF c = "." /\ ~nxt.eof /\ nxt.next = "."
        THEN Scanned(advance(advance(l)), Token("DOTDOT", <<>>), pos)
        ELSE IF \E pt \in Punctuation : pt[1] = c
        THEN Scanned(advance(l),
                     Token((CHOOSE pt \in Punctuation : pt[1] = c)[2], <<>>), pos)
        ELSE Scanned(advance(l),
                     Token("ERROR", <<"unrecognized character",
                                      advance(l).currentChar>>), pos)

RECURSIVE TokenStart(_)
\* The index (from 0) of the character at which the token returned by the
\* next call of GetNextToken begins: white space and closed comments are
\* passed over first.
TokenStart(l) ==
    LET c   == l.currentChar
        nxt == peek(l)
    IN  IF l.eof THEN l.pos
        ELSE IF IsSpace(c) THEN TokenStart(skipWhitespace(l))
        ELSE IF c = "/" /\ ~nxt.eof /\ nxt.next = "/"
             THEN TokenStart(skipLineComment(l))
        ELSE IF c = "/" /\ ~nxt.eof /\ nxt.next = "*"
             THEN LET r == skipBlockComment(l)
                  IN  IF ~r.diverged /\ r.tok = NilToken
                      THEN TokenStart(r.l) ELSE l.pos
        ELSE l.pos

\* One call of GetNextToken by the lexer's user.  Every answer is logged
\* with the index at which its token begins.
NextToken ==
    /\ scanning = "returned"
    /\ Len(tokens) < Len(lexer.sourceCode) + 1 + MaxEofCalls
    /\ LET r == GetNextToken(lexer)
       IN  IF r.diverged
           THEN /\ scanning' = "diverged"
                /\ UNCHANGED <<lexer, tokens>>
           ELSE /\ lexer' = r.l
                /\ tokens' = Append(tokens, [tok |-> r.tok, Pos |-> r.Pos,
                                           start |-> TokenStart(lexer)])
                /\ UNCHANGED scanning
    /\ UNCHANGED <<prog, stage, results, symbols, out, status>>
    /\ UNCHANGED interpVars
    /\ UNCHANGED parseVars

(***************************************************************************)
(* Package parser.  The parser reads its tokens from a Lexer; here that is *)
(* the mock lexer of the parser's tests: it hands out the tokens of a      *)
(* list and answers EOF to every call after the last one.                  *)
(***************************************************************************)
\* The position the mock lexer gives with the EOF token.
EofPos == Position(99, 99)

newMockLexer(toks) == [tokens |-> toks, pos |-> 0]

MockGetNextToken(m) ==
    IF m.pos > Len(m.tokens) - 1
    THEN [m |-> m, tok |-> Token("EOF", <<>>), Pos |-> EofPos]
    ELSE [m   |-> [m EXCEPT !.pos = @ + 1],
          tok |-> m.tokens[m.pos + 1].tok,
          Pos |-> m.tokens[m.pos + 1].Pos]

\* Token.IsStatement, Token.IsOperator, Token.IsType.
IsStatement(t) == t.tag \in {"VAR", "IDENT", "FOR", "READ", "PRINT", "ASSERT"}

IsOperator(t) ==
    t.tag \in {"PLUS", "MINUS", "MULTIPLY", "INTEGER_DIV", "LT", "EQ", "AND"}

IsType(t) == t.tag \in {"INTEGER", "STRING", "BOOLEAN"}

\* Token.ValueInt and Token.Value: both panic on an empty lexeme, ValueInt
\* also on a lexeme that strconv.Atoi rejects.
ValueInt(t) ==
    IF t.lexeme = <<>> THEN [ok |-> FALSE, v |-> 0]
    ELSE [ok |-> Atoi(t.lexeme).ok, v |-> Atoi(t.lexeme).n]

Value(t) == [ok |-> t.lexeme # <<>>, v |-> t.lexeme]

\* The zero value of a statement struct (ast.DeclStmt{} and so on).
ZeroToken == Token("", <<>>)

ZeroIdent == Ident(ZeroToken, NoPos)

ZeroDeclStmt == DeclStmt(ZeroToken, ZeroToken, NilExpr, NoPos)

ZeroAssignStmt == AssignStmt(ZeroIdent, NilExpr, NoPos)

ZeroForStmt == ForStmt(ZeroIdent, NilExpr, NilExpr, <<>>, NoPos)

ZeroReadStmt == ReadStmt(ZeroIdent, NoPos)

ZeroPrintStmt == PrintStmt(NilExpr, NoPos)

ZeroAssertStmt == AssertStmt(NilExpr, NoPos)

\* A nil ast.Stmt (what parseStatement returns on an unexpected token).
NilStmt == [node |-> "nil"]

\* The parser before New.
NoParser == [lexer |-> newMockLexer(<<>>), currentToken |-> ZeroToken,
             currentPos |-> NoPos, errors |-> <<>>, panicked |-> FALSE]

\* New: the first token is read at once.
ParserNew(lx) ==
    LET r == MockGetNextToken(lx)
    IN  [lexer |-> r.m, currentToken |-> r.tok, currentPos |-> r.Pos,
         errors |-> <<>>, panicked |-> FALSE]

\* p.currentToken, p.currentPos = p.lexer.GetNextToken()
NextCurrent(p) ==
    LET r == MockGetNextToken(p.lexer)
    IN  [p EXCEPT !.lexer = r.m, !.currentToken = r.tok, !.currentPos = r.Pos]

\* fmt.Errorf("%s: syntax error: expected %v got %v", pos, expected, got);
\* with expected = "" it is "%s: syntax error: unexpected %v".
SyntaxError(pos, expected, got) ==
    [Pos |-> pos, msg |-> "syntax error", expected |-> expected, got |-> got]

\* fmt.Errorf("Syntax error: expected a type, got %v", got): no position.
TypeExpected(got) ==
    [Pos |-> NoPos, msg |-> "Syntax error", expected |-> "a type", got |-> got]

\* An AddError that leaves out the errors about an ERROR token.
AddErrorUnlessLexical(p, err) ==
    IF err.got = "ERROR" THEN p ELSE [p EXCEPT !.errors = Append(@, err)]

AddError(p, err) == [p EXCEPT !.errors = Append(@, err)]

\* What a parsing function gives: the parser it leaves and its node.
Parsed(p, node) == [p |-> p, node |-> node]

\* A panic of Token.ValueInt or Token.Value under parseOperand.
ParserPanic(p) == Parsed([p EXCEPT !.panicked = TRUE], NilExpr)

eat(p, tokenType) ==
    IF p.currentToken.tag = tokenType
    THEN [p |-> NextCurrent(p), ok |-> TRUE]
    ELSE [p  |-> AddError(p, SyntaxError(p.currentPos, tokenType,
                                         p.currentToken.tag)),
          ok |-> FALSE]

RECURSIVE skipTo(_, _)
skipTo(p, tags) ==
    IF p.currentToken.tag = "EOF" THEN p
    ELSE IF p.currentToken.tag \in tags THEN NextCurrent(p)
    ELSE skipTo(NextCurrent(p), tags)

RECURSIVE skipStatementKeepsSemi(_)
\* A variant of skipStatement that stops in front of the semicolon.
skipStatementKeepsSemi(p) ==
    IF p.currentToken.tag \in {"EOF", "SEMI"} THEN p
    ELSE skipStatementKeepsSemi(NextCurrent(p))

skipStatement(p) == skipTo(p, {"SEMI"})

RECURSIVE skipForBlockFlat(_)
\* A variant of skipForBlock that takes the first "end for ;" it meets.
skipForBlockFlat(p) ==
    IF p.currentToken.tag = "EOF" THEN p
    ELSE IF p.currentToken.tag = "END"
              /\ NextCurrent(p).currentToken.tag = "FOR"
              /\ NextCurrent(NextCurrent(p)).currentToken.tag = "SEMI"
    THEN NextCurrent(NextCurrent(NextCurrent(p)))
    ELSE skipForBlockFlat(NextCurrent(p))

RECURSIVE skipForBlock(_)
skipForBlock(p) ==
    IF p.currentToken.tag = "EOF" THEN p
    ELSE IF p.currentToken.tag = "FOR"
    THEN skipForBlock(skipForBlock(NextCurrent(p)))
    ELSE IF p.currentToken.tag = "END"
    THEN IF NextCurrent(p).currentToken.tag # "FOR"
         THEN skipForBlock(NextCurrent(p))
         ELSE IF NextCurrent(NextCurrent(p)).currentToken.tag = "SEMI"
         THEN NextCurrent(NextCurrent(NextCurrent(p)))
         ELSE skipForBlock(NextCurrent(NextCurrent(p)))
    ELSE skipForBlock(NextCurrent(p))

\* "if !p.eat(t) { return nil }" followed by "return node".
EatThen(p, tokenType, node) ==
    IF eat(p, tokenType).ok THEN Parsed(eat(p, tokenType).p, node)
    ELSE Parsed(eat(p, tokenType).p, NilExpr)

RECURSIVE parseExpression(_)
RECURSIVE parseOperand(_)

\* case token.LPAREN of parseOperand, after the parenthesis: the expression
\* and the closing parenthesis.
ParenOperand(e) ==
    IF e.node = NilExpr THEN e ELSE EatThen(e.p, "RPAREN", e.node)

parseOperand(p) ==
    LET pos == p.currentPos
        t   == p.currentToken
    IN  CASE t.tag = "INTEGER_LITERAL" ->
                IF ~ValueInt(t).ok THEN ParserPanic(p)
                ELSE EatThen(p, "INTEGER_LITERAL", NumberOpnd(ValueInt(t).v, pos))
          [] t.tag = "STRING_LITERAL" ->
                IF ~Value(t).ok THEN ParserPanic(p)
                ELSE EatThen(p, "STRING_LITERAL", StringOpnd(Value(t).v, pos))
          [] t.tag = "IDENT" -> EatThen(p, "IDENT", Ident(t, pos))
          [] t.tag = "LPAREN" ->
                IF ~eat(p, "LPAREN").ok THEN Parsed(eat(p, "LPAREN").p, NilExpr)
                ELSE ParenOperand(parseExpression(eat(p, "LPAREN").p))
          [] OTHER -> Parsed(AddError(p, SyntaxError(pos, "", t.tag)), NilExpr)

\* parseExpression after "!": the operand of the unary expression.
UnaryOperand(o, unary, pos) ==
    IF o.node = NilExpr THEN o ELSE Parsed(o.p, UnaryExpr(unary, o.node, pos))

\* parseExpression after the operator: the right operand.
RightOperand(r, left, operator) ==
    IF r.node = NilExpr THEN r
    ELSE Parsed(r.p, BinaryExpr(left, operator, r.node))

\* parseExpression after the left operand.
AfterLeft(l) ==
    IF l.node = NilExpr THEN l
    ELSE IF ~IsOperator(l.p.currentToken) THEN Parsed(l.p, NullaryExpr(l.node))
    ELSE RightOperand(parseOperand(eat(l.p, l.p.currentToken.tag).p),
                      l.node, l.p.currentToken)

parseExpression(p) ==
    IF p.currentToken.tag = "NOT"
    THEN UnaryOperand(parseOperand(eat(p, "NOT").p), p.currentToken, p.currentPos)
    ELSE AfterLeft(parseOperand(p))

\* "p.skipStatement(); return <zero statement>".
Skipped(p, zero) == Parsed(skipStatement(p), zero)

\* The end of a statement: "p.eat(token.SEMI); return node".
Terminated(p, node) == Parsed(eat(p, "SEMI").p, node)

\* parseDeclaration after ":=": the expression and the semicolon.
DeclExpression(e, id, variableType, pos) ==
    IF e.node = NilExpr THEN Skipped(e.p, ZeroDeclStmt)
    ELSE Terminated(e.p, DeclStmt(id, variableType, e.node, pos))

\* parseDeclaration from the type on.
DeclType(p, id, pos) ==
    IF ~IsType(p.currentToken)
    THEN Skipped(AddError(p, TypeExpected(p.currentToken.tag)), ZeroDeclStmt)
    ELSE IF ~eat(p, p.currentToken.tag).ok
    THEN Skipped(eat(p, p.currentToken.tag).p, ZeroDeclStmt)
    ELSE IF NextCurrent(p).currentToken.tag # "ASSIGN"
    THEN Terminated(NextCurrent(p), DeclStmt(id, p.currentToken, NilExpr, pos))
    ELSE DeclExpression(parseExpression(eat(NextCurrent(p), "ASSIGN").p),
                        id, p.currentToken, pos)

\* parseDeclaration from the identifier on.
DeclIdent(p, pos) ==
    IF ~eat(p, "IDENT").ok THEN Skipped(eat(p, "IDENT").p, ZeroDeclStmt)
    ELSE IF ~eat(NextCurrent(p), "COLON").ok
    THEN Skipped(eat(NextCurrent(p), "COLON").p, ZeroDeclStmt)
    ELSE DeclType(NextCurrent(NextCurrent(p)), p.currentToken, pos)

parseDeclaration(p) ==
    IF ~eat(p, "VAR").ok THEN Skipped(eat(p, "VAR").p, ZeroDeclStmt)
    ELSE DeclIdent(NextCurrent(p), p.currentPos)

\* parseAssignment after ":=": the expression and the semicolon.
AssignExpression(e, id, pos) ==
    IF e.node = NilExpr THEN Skipped(e.p, ZeroAssignStmt)
    ELSE Terminated(e.p, AssignStmt(Ident(id, pos), e.node, pos))

parseAssignment(p) ==
    IF ~eat(p, "IDENT").ok THEN Skipped(eat(p, "IDENT").p, ZeroAssignStmt)
    ELSE IF ~eat(NextCurrent(p), "ASSIGN").ok
    THEN Skipped(eat(NextCurrent(p), "ASSIGN").p, ZeroAssignStmt)
    ELSE AssignExpression(parseExpression(NextCurrent(NextCurrent(p))),
                          p.currentToken, p.currentPos)

parseReadStatement(p) ==
    IF ~eat(p, "READ").ok THEN Skipped(eat(p, "READ").p, ZeroReadStmt)
    ELSE IF ~eat(NextCurrent(p), "IDENT").ok
    THEN Skipped(eat(NextCurrent(p), "IDENT").p, ZeroReadStmt)
    ELSE Terminated(NextCurrent(NextCurrent(p)),
                    ReadStmt(Ident(NextCurrent(p).currentToken,
                                   NextCurrent(p).currentPos),
                             p.currentPos))

\* parsePrintStatement after "print": the expression and the semicolon.
PrintExpression(e, pos) ==
    IF e.node = NilExpr THEN Skipped(e.p, ZeroPrintStmt)
    ELSE Terminated(e.p, PrintStmt(e.node, pos))

parsePrintStatement(p) ==
    IF ~eat(p, "PRINT").ok THEN Skipped(eat(p, "PRINT").p, ZeroPrintStmt)
    ELSE PrintExpression(parseExpression(NextCurrent(p)), p.currentPos)

\* parseAssertStatement after "(": the expression, ")" and the semicolon.
AssertExpression(e, pos) ==
    IF e.node = NilExpr THEN Skipped(e.p, ZeroAssertStmt)
    ELSE IF ~eat(e.p, "RPAREN").ok
    THEN Skipped(eat(e.p, "RPAREN").p, ZeroAssertStmt)
    ELSE Terminated(NextCurrent(e.p), AssertStmt(e.node, pos))

parseAssertStatement(p) ==
    IF ~eat(p, "ASSERT").ok THEN Skipped(eat(p, "ASSERT").p, ZeroAssertStmt)
    ELSE IF ~eat(NextCurrent(p), "LPAREN").ok
    THEN Skipped(eat(NextCurrent(p), "LPAREN").p, ZeroAssertStmt)
    ELSE AssertExpression(parseExpression(NextCurrent(NextCurrent(p))),
                          p.currentPos)

\* "p.skipForBlock(); return ast.ForStmt{}".
SkippedBlock(p) == Parsed(skipForBlock(p), ZeroForStmt)

RECURSIVE parseStatement(_)
RECURSIVE StatementsLoop(_, _)
\* The loop of parseStatements: one more statement while the current token
\* begins one.
StatementsLoop(p, statements) ==
    IF IsStatement(p.currentToken)
    THEN LET s == parseStatement(p)
         IN  StatementsLoop(s.p, Append(statements, s.node))
    ELSE Parsed(p, statements)

parseStatements(p) ==
    LET s == parseStatement(p) IN StatementsLoop(s.p, <<s.node>>)

\* parseForStatement after the body: "end for ;".
ForEnd(b, index, low, high, pos) ==
    IF ~eat(b.p, "END").ok THEN SkippedBlock(eat(b.p, "END").p)
    ELSE IF ~eat(NextCurrent(b.p), "FOR").ok
    THEN SkippedBlock(eat(NextCurrent(b.p), "FOR").p)
    ELSE Terminated(NextCurrent(NextCurrent(b.p)),
                    ForStmt(index, low, high, b.node, pos))

\* parseForStatement after "..": the upper bound, "do" and the body.
ForHigh(h, index, low, pos) ==
    IF h.node = NilExpr THEN SkippedBlock(h.p)
    ELSE IF ~eat(h.p, "DO").ok THEN SkippedBlock(eat(h.p, "DO").p)
    ELSE ForEnd(parseStatements(NextCurrent(h.p)), index, low, h.node, pos)

\* parseForStatement after "in": the lower bound and "..".
ForLow(l, index, pos) ==
    IF l.node = NilExpr THEN SkippedBlock(l.p)
    ELSE IF ~eat(l.p, "RANGE").ok THEN SkippedBlock(eat(l.p, "RANGE").p)
    ELSE ForHigh(parseExpression(NextCurrent(l.p)), index, l.node, pos)

parseForStatement(p) ==
    IF ~eat(p, "FOR").ok THEN SkippedBlock(eat(p, "FOR").p)
    ELSE IF ~eat(NextCurrent(p), "IDENT").ok
    THEN SkippedBlock(eat(NextCurrent(p), "IDENT").p)
    ELSE IF ~eat(NextCurrent(NextCurrent(p)), "IN").ok
    THEN SkippedBlock(eat(NextCurrent(NextCurrent(p)), "IN").p)
    ELSE ForLow(parseExpression(NextCurrent(NextCurrent(NextCurrent(p)))),
                Ident(NextCurrent(p).currentToken, NextCurrent(p).currentPos),
                p.currentPos)

parseStatement(p) ==
    CASE p.currentToken.tag = "VAR"    -> parseDeclaration(p)
      [] p.currentToken.tag = "IDENT"  -> parseAssignment(p)
      [] p.currentToken.tag = "FOR"    -> parseForStatement(p)
      [] p.currentToken.tag = "READ"   -> parseReadStatement(p)
      [] p.currentToken.tag = "PRINT"  -> parsePrintStatement(p)
      [] p.currentToken.tag = "ASSERT" -> parseAssertStatement(p)
      [] OTHER -> Parsed(AddError(p, SyntaxError(p.currentPos, "",
                                                 p.currentToken.tag)),
                         NilStmt)

\* What Parse gives: the statements of the ast.Prog and p.errors, or a
\* panic that leaves Parse without either.
Returned(s) ==
    IF s.p.panicked
    THEN [outcome |-> "panic", root |-> <<>>, errors |-> <<>>]
    ELSE [outcome |-> "returned", root |-> s.node,
          errors |-> eat(s.p, "EOF").p.errors]

\* A variant of Parse that does not look for the end of the input.
ParseWithoutEof(p) ==
    LET s == parseStatements(p)
    IN  [outcome |-> "returned", root |-> s.node, errors |-> s.p.errors]

Parse(p) == Returned(parseStatements(p))

(***************************************************************************)
(* The token lists given to the parser.  A list is made of pieces: whole   *)
(* statements, well formed or not, the head of a loop, its "end for ;", a  *)
(* stray semicolon.  The k-th token of a list is at line 1, column k.      *)
(***************************************************************************)
\* The token of a tag, with a lexeme where its kind has one.
Tok(tag) ==
    CASE tag = "IDENT"           -> Token(tag, <<"i">>)
      [] tag = "INTEGER_LITERAL" -> Token(tag, <<"1">>)
      [] tag = "STRING_LITERAL"  -> Token(tag, <<"s">>)
      [] OTHER                   -> Token(tag, <<>>)

Toks(tags) == [k \in 1..Len(tags) |-> Tok(tags[k])]

\* for i in 1 .. 1 do
ForHead == Toks(<<"FOR", "IDENT", "IN", "INTEGER_LITERAL", "RANGE",
                  "INTEGER_LITERAL", "DO">>)

\* for i in .. 1 do
BadForHead == Toks(<<"FOR", "IDENT", "IN", "RANGE", "INTEGER_LITERAL", "DO">>)

\* end for ;
EndFor == Toks(<<"END", "FOR", "SEMI">>)

\* print 1 ;
GoodPrint == Toks(<<"PRINT", "INTEGER_LITERAL", "SEMI">>)

\* print ;
BadPrint == Toks(<<"PRINT", "SEMI">>)

\* print 1 1 ;
PrintTwo == Toks(<<"PRINT", "INTEGER_LITERAL", "INTEGER_LITERAL", "SEMI">>)

\* print "" ;   (the lexer's token of an empty string literal)
PrintEmpty == <<Tok("PRINT"), Token("STRING_LITERAL", <<>>), Tok("SEMI")>>

\* The well-formed statement that stands at place k of a list: the kinds
\* of statement take turns.
Stmt(k) ==
    CASE k % 6 = 1 -> Toks(<<"VAR", "IDENT", "COLON", "INTEGER", "ASSIGN",
                            "INTEGER_LITERAL", "SEMI">>)
      [] k % 6 = 2 -> Toks(<<"IDENT", "ASSIGN", "LPAREN", "IDENT", "PLUS",
                            "STRING_LITERAL", "RPAREN", "SEMI">>)
      [] k % 6 = 3 -> Toks(<<"READ", "IDENT", "SEMI">>)
      [] k % 6 = 4 -> Toks(<<"ASSERT", "LPAREN", "NOT", "IDENT", "RPAREN",
                            "SEMI">>)
      [] k % 6 = 5 -> Toks(<<"VAR", "IDENT", "COLON", "STRING", "SEMI">>)
      [] OTHER     -> GoodPrint

\* The names of the pieces.
PieceNames == {"Stmt", "BadPrint", "PrintTwo", "PrintEmpty", "Semi",
               "ForHead", "BadForHead", "EndFor", "Nest"}

\* The tokens of the piece at place k.
PieceTokens(name, k) ==
    CASE name = "Stmt"       -> Stmt(k)
      [] name = "BadPrint"   -> BadPrint
      [] name = "PrintTwo"   -> PrintTwo
      [] name = "PrintEmpty" -> PrintEmpty
      [] name = "Semi"       -> Toks(<<"SEMI">>)
      [] name = "ForHead"    -> ForHead
      [] name = "BadForHead" -> BadForHead
      [] name = "EndFor"     -> EndFor
      [] name = "Nest"       -> ForHead \o ForHead \o GoodPrint \o EndFor \o EndFor

RECURSIVE TokensUpTo(_, _)
\* The tokens of the first n pieces of a list.
TokensUpTo(ps, n) ==
    IF n = 0 THEN <<>>
    ELSE TokensUpTo(ps, n - 1) \o PieceTokens(ps[n], n)

\* The tokens of pieces from..to of a list, each with its position in the
\* whole list.
Positioned(ps, from, to) ==
    LET all   == TokensUpTo(ps, to)
        first == Len(TokensUpTo(ps, from - 1)) + 1
    IN  [k \in 1..(Len(all) - first + 1) |->
            [tok |-> all[first + k - 1], Pos |-> Position(1, first + k - 1)]]

\* The pieces of the lists that are loops with statements in them.
LoopPieceNames == {"Stmt", "BadPrint", "ForHead", "EndFor"}

RECURSIVE PieceLists(_, _)
\* Every list of at most n pieces with the given names.
PieceLists(names, n) ==
    IF n = 0 THEN {<<>>}
    ELSE PieceLists(names, n - 1)
         \cup { Append(ps, name) : ps \in PieceLists(names, n - 1), name \in names }

\* New on the mock lexer, then Parse.
ParserParse ==
    /\ stage = "parsing"
    /\ stage' = "parsed"
    /\ results' = Append(results, Parse(parser))
    /\ UNCHANGED <<prog, symbols, out, status>>
    /\ UNCHANGED interpVars
    /\ UNCHANGED lexVars
    /\ UNCHANGED parseVars

(***************************************************************************)
(* frontEnd.Execute.  The parser's result is drawn: either the program     *)
(* with no error, or a non-empty list of syntax errors.                    *)
(***************************************************************************)
SyntaxErrorLists == { <<Diagnostic(Position(1, 1), "syntax error", "")>> }

\* A driver that goes on to the next stage whatever the stage returned.
StageNeverFails(errors) == FALSE

\* if len(errors) > 0 { print them; return }
StageFails(errors) == Len(errors) > 0

DriverParse ==
    /\ stage = "parse" /\ status = "running"
    /\ \E errors \in {<<>>} \cup SyntaxErrorLists :
         /\ results' = Append(results, [stage |-> "parser", errors |-> errors])
         /\ IF StageFails(errors)
            THEN /\ out' = PrintErrors(out, errors)
                 /\ status' = "returned"
                 /\ UNCHANGED stage
            ELSE /\ stage' = "scope"
                 /\ UNCHANGED <<out, status>>
    /\ UNCHANGED <<prog, symbols>>
    /\ UNCHANGED interpVars
    /\ UNCHANGED lexVars
    /\ UNCHANGED parseVars

DriverScope ==
    /\ stage = "scope" /\ status = "running"
    /\ LET stc == Create(prog)
       IN  /\ results' = Append(results, [stage |-> "symboltable", errors |-> stc.errors])
           /\ symbols' = stc.symbols
           /\ IF StageFails(stc.errors)
              THEN /\ out' = PrintErrors(out, stc.errors)
                   /\ status' = "returned"
                   /\ UNCHANGED stage
              ELSE /\ stage' = "types"
                   /\ UNCHANGED <<out, status>>
    /\ UNCHANGED prog
    /\ UNCHANGED interpVars
    /\ UNCHANGED lexVars
    /\ UNCHANGED parseVars

DriverTypes ==
    /\ stage = "types" /\ status = "running"
    /\ LET tc == CheckTypes(symbols, prog)
       IN  IF tc.panicked
           THEN /\ status' = "type checker panic"
                /\ UNCHANGED <<stage, results, out>>
           ELSE /\ results' = Append(results, [stage |-> "typechecker", errors |-> tc.errors])
                /\ IF StageFails(tc.errors)
                   THEN /\ out' = PrintErrors(out, tc.errors)
                        /\ status' = "returned"
                        /\ UNCHANGED stage
                   ELSE /\ stage' = "run"
                        /\ UNCHANGED <<out, status>>
    /\ UNCHANGED <<prog, symbols>>
    /\ UNCHANGED interpVars
    /\ UNCHANGED lexVars
    /\ UNCHANGED parseVars

(***************************************************************************)
(* The statements and loop headers the programs are drawn from.            *)
(***************************************************************************)
Num(n) == NumberOpnd(n, NoPos)

Str(str) == StringOpnd(str, NoPos)

Var(name) == Ident(name, NoPos)

Pool(decls, targets, exprs, lows, highs, emptyBody) ==
    [simple |->
        { DeclStmt(d[1], d[2], d[3], NoPos) : d \in decls }
        \cup { AssignStmt(Var(a[1]), a[2], NoPos) : a \in targets.assign }
        \cup { ReadStmt(Var(n), NoPos) : n \in targets.read }
        \cup { PrintStmt(e, NoPos) : e \in exprs.print }
        \cup { AssertStmt(e, NoPos) : e \in exprs.assert },
     headers |->
        { [Index |-> Var(n), Low |-> lo, High |-> hi] :
            n \in targets.index, lo \in lows, hi \in highs },
     emptyBody |-> emptyBody]

\* For the symbol table creator: two names, declared once or twice or not
\* at all, an initialiser and a right-hand side that refer to x, x and i in
\* binary, unary and nullary expressions, i assigned, read and used as the
\* index of loops that nest.
ScopePool ==
    LET x  == NullaryExpr(Var("x"))
        n0 == NullaryExpr(Num(0))
    IN  Pool({<<"i", "INTEGER", NilExpr>>, <<"i", "STRING", NilExpr>>,
              <<"x", "INTEGER", NilExpr>>, <<"i", "INTEGER", x>>},
             [assign |-> {<<"i", x>>}, read |-> {"i"}, index |-> {"i"}],
             [print |-> {BinaryExpr(Var("x"), "PLUS", Var("i"))},
              assert |-> {UnaryExpr("NOT", Var("x"), NoPos)}],
             {n0}, {x}, FALSE)

\* For the type checker: well-typed and ill-typed forms of every statement.
TypePool ==
    LET n0 == NullaryExpr(Num(0))
        sa == NullaryExpr(Str(<<"a">>))
        eq == BinaryExpr(Num(0), "EQ", Num(0))
    IN  Pool({"i"} \X {"INTEGER"} \X {NilExpr, n0, sa},
             [assign |-> {"i"} \X {n0, sa}, read |-> {"i"}, index |-> {"i"}],
             [print |-> {n0, BinaryExpr(Num(0), "MINUS", Str(<<"a">>)),
                         UnaryExpr("NOT", Num(0), NoPos)},
              assert |-> {n0, eq}],
             {n0, sa}, {n0}, FALSE)

\* For the interpreter: a counter n (an int or a string), loops whose bound
\* is a literal or n, a body that changes n, a division by n, a comparison
\* of n, an assertion that fails from the second iteration on.
ExecPool ==
    LET n0 == NullaryExpr(Num(0))
        n2 == NullaryExpr(Num(2))
        n  == NullaryExpr(Var("n"))
    IN  Pool({<<"i", "INTEGER", NilExpr>>, <<"n", "INTEGER", NilExpr>>,
              <<"n", "INTEGER", n2>>, <<"n", "STRING", NilExpr>>},
             [assign |-> {<<"n", BinaryExpr(Var("n"), "PLUS", Num(1))>>},
              read |-> {"n"}, index |-> {"i"}],
             [print |-> {n, BinaryExpr(Num(1), "INTEGER_DIV", Var("n")),
                         BinaryExpr(Var("n"), "LT", Var("n"))},
              assert |-> {BinaryExpr(Var("i"), "LT", Num(1))}],
             {n0}, {n2, n}, FALSE)

(***************************************************************************)
(* The specifications.                                                     *)
(***************************************************************************)
InitWith(programs, firstStage) ==
    /\ prog \in programs
    /\ stage = firstStage
    /\ results = <<>>
    /\ symbols = NewSymbolTable
    /\ out = <<>>
    /\ status = "running"
    /\ variables = <<>>
    /\ stack = <<>>
    /\ frames = <<RootFrame(prog)>>
    /\ stdin = <<>>
    /\ eof = FALSE
    /\ trace = <<>>
    /\ readLog = <<>>
    /\ loopLog = <<>>
    /\ lexer = LexerNew(<<>>)
    /\ tokens = <<>>
    /\ scanning = "returned"
    /\ pieces = <<>>
    /\ parser = NoParser

\* frontEnd.Execute on a source file: parser, symbol table creator, type
\* checker, interpreter.
Init == InitWith(Programs(ExecPool, MaxExecStmts), "parse")

Next == DriverParse \/ DriverScope \/ DriverTypes \/ Interpret

Spec == Init /\ [][Next]_vars

\* SymbolTableCreator.Create on a syntax tree.
InitScope == InitWith(Programs(ScopePool, MaxScopeStmts), "scope")

NextScope == DriverScope

SpecScope == InitScope /\ [][NextScope]_vars

\* Create on programs that declare i once or twice, assign to it and loop
\* over it, the loops nested or in sequence.
MaxLockStmts == 5

LockPool ==
    LET n0 == NullaryExpr(Num(0))
    IN  Pool({<<"i", "INTEGER", NilExpr>>, <<"i", "STRING", NilExpr>>},
             [assign |-> {<<"i", n0>>}, read |-> {}, index |-> {"i"}],
             [print |-> {}, assert |-> {}],
             {n0}, {n0}, FALSE)

InitLock == InitWith(Programs(LockPool, MaxLockStmts), "scope")

SpecLock == InitLock /\ [][NextScope]_vars

\* Create and CheckTypes on a syntax tree.
InitTypes == InitWith(Programs(TypePool, MaxTypeStmts), "scope")

NextTypes == DriverScope \/ DriverTypes

SpecTypes == InitTypes /\ [][NextTypes]_vars

\* parser.New(lexer.New(source)).Parse() on a source text made of at most
\* MaxFrontPieces pieces: the lexer produces the tokens, the parser takes
\* them.  A call of GetNextToken that does not return is the token HANG.
MaxFrontPieces == 4

FrontPieces == {<<"a">>, <<":", "=">>, <<";">>, <<"#">>, <<"\"">>, <<"_">>}

RECURSIVE FrontSources(_)
FrontSources(n) ==
    IF n = 0 THEN {<<>>}
    ELSE FrontSources(n - 1)
         \cup { src \o piece : src \in FrontSources(n - 1), piece \in FrontPieces }

InitFront ==
    /\ \E src \in FrontSources(MaxFrontPieces) : lexer = LexerNew(src)
    /\ tokens = <<>>
    /\ scanning = "returned"
    /\ prog = <<>>
    /\ stage = "lexing"
    /\ results = <<>>
    /\ symbols = NewSymbolTable
    /\ out = <<>>
    /\ status = "running"
    /\ variables = <<>>
    /\ stack = <<>>
    /\ frames = <<RootFrame(<<>>)>>
    /\ stdin = <<>>
    /\ eof = FALSE
    /\ trace = <<>>
    /\ readLog = <<>>
    /\ loopLog = <<>>
    /\ pieces = <<>>
    /\ parser = NoParser

\* The lexer has given the EOF token.
AtEof == tokens # <<>> /\ tokens[Len(tokens)].tok.tag = "EOF"

\* One more GetNextToken call, up to the EOF token.
FrontNextToken ==
    /\ stage = "lexing"
    /\ ~AtEof
    /\ NextToken

\* The tokens the lexer gives the parser.
Emitted ==
    [k \in 1..Len(tokens) |-> [tok |-> tokens[k].tok, Pos |-> tokens[k].Pos]]
    \o (IF scanning = "diverged"
        THEN <<[tok |-> Token("HANG", <<>>), Pos |-> NoPos]>> ELSE <<>>)

\* The parser as Parse leaves it, s being what parseStatements returned.
AfterStatements(s) == IF s.p.panicked THEN s.p ELSE eat(s.p, "EOF").p

FinalParser(p) == AfterStatements(parseStatements(p))

\* Parse does not return when the parser asks for the token of a call that
\* does not return.
FrontResult(p, final) ==
    IF scanning = "diverged" /\ final.lexer.pos = Len(tokens) + 1
    THEN [outcome |-> "diverged", root |-> <<>>, errors |-> <<>>]
    ELSE Parse(p)

FrontParse ==
    /\ stage = "lexing"
    /\ AtEof \/ scanning = "diverged"
    /\ parser' = FinalParser(ParserNew(newMockLexer(Emitted)))
    /\ results' = Append(results, FrontResult(ParserNew(newMockLexer(Emitted)), parser'))
    /\ stage' = "parsed"
    /\ UNCHANGED <<prog, symbols, out, status, pieces>>
    /\ UNCHANGED interpVars
    /\ UNCHANGED lexVars

NextFront == FrontNextToken \/ FrontParse

SpecFront == InitFront /\ [][NextFront]_vars

\* frontEnd.Execute on programs in which a declaration is initialised from
\* another variable, the loop index is read, and a loop body assigns a
\* string to an int variable or holds a loop over the same index.
MaxAcceptedStmts == 4

AcceptedPool ==
    LET n0 == NullaryExpr(Num(0))
        n2 == NullaryExpr(Num(2))
        n  == NullaryExpr(Var("n"))
    IN  Pool({<<"i", "INTEGER", NilExpr>>, <<"n", "INTEGER", NilExpr>>,
              <<"i", "INTEGER", n>>},
             [assign |-> {<<"n", NullaryExpr(Str(<<"a">>))>>},
              read |-> {"i"}, index |-> {"i"}],
             [print |-> {n},
              assert |-> {BinaryExpr(Var("i"), "LT", Num(1))}],
             {n0}, {n2}, FALSE)

InitAccepted == InitWith(Programs(AcceptedPool, MaxAcceptedStmts), "parse")

NextAccepted == DriverParse \/ DriverScope \/ DriverTypes \/ Interpret

SpecAccepted == InitAccepted /\ [][NextAccepted]_vars

\* TypeChecker.VisitBinaryExpr on one binary expression: every operator
\* between two operands that are a literal, a variable or a comparison, in
\* a table with a variable of each type.
Operators == {"PLUS", "MINUS", "MULTIPLY", "INTEGER_DIV", "AND", "LT", "EQ"}

Operands ==
    {NullaryExpr(Num(1)), NullaryExpr(Str(<<"a">>)), Var("i"), Var("s"), Var("b"),
     BinaryExpr(Num(0), "EQ", Num(0))}

BinaryExprs == { BinaryExpr(l, op, r) : l \in Operands, op \in Operators, r \in Operands }

TypedTable ==
    SymbolTableInsert(SymbolTableInsert(SymbolTableInsert(NewSymbolTable,
        "i", "INTEGER"), "s", "STRING"), "b", "BOOLEAN")

InitBinary ==
    /\ prog \in { <<PlaceStmt(PrintStmt(e, NoPos), 1)>> : e \in BinaryExprs }
    /\ stage = "expression"
    /\ results = <<>>
    /\ symbols = TypedTable
    /\ out = <<>>
    /\ status = "running"
    /\ variables = <<>>
    /\ stack = <<>>
    /\ frames = <<RootFrame(prog)>>
    /\ stdin = <<>>
    /\ eof = FALSE
    /\ trace = <<>>
    /\ readLog = <<>>
    /\ loopLog = <<>>
    /\ lexer = LexerNew(<<>>)
    /\ tokens = <<>>
    /\ scanning = "returned"
    /\ pieces = <<>>
    /\ parser = NoParser

\* node.Accept(tc) on the expression with a fresh checker; the errors and
\* the stack it leaves are recorded.
AcceptBinaryExpr ==
    /\ stage = "expression"
    /\ LET tc == TcVisitExpr([stack |-> <<>>, symbols |-> symbols,
                              errors |-> <<>>, panicked |-> FALSE],
                             prog[1].Expression)
       IN  results' = Append(results, [stage |-> "expression", errors |-> tc.errors,
                                       stack |-> tc.stack, panicked |-> tc.panicked])
    /\ stage' = "checked"
    /\ UNCHANGED <<prog, symbols, out, status>>
    /\ UNCHANGED interpVars
    /\ UNCHANGED lexVars
    /\ UNCHANGED parseVars

NextBinary == AcceptBinaryExpr

SpecBinary == InitBinary /\ [][NextBinary]_vars

\* Interpreter.Run on a syntax tree.
InitRun == InitWith(Programs(ExecPool, MaxExecStmts), "run")

NextRun == Interpret

SpecRun == InitRun /\ [][NextRun]_vars

\* Run as the one thread of the process executes it: a step that can be
\* taken is taken; a Read gets what the input holds, or its end.  The
\* programs are loops over 0..n, nested or in sequence, whose bodies add to
\* n, read n, print it and assert on the index.
MaxTermStmts == 3

TermPool ==
    LET n0 == NullaryExpr(Num(0))
        n  == NullaryExpr(Var("n"))
    IN  Pool({<<"n", "INTEGER", NullaryExpr(Num(2))>>},
             [assign |-> {<<"n", BinaryExpr(Var("n"), "PLUS", Num(1))>>},
              read |-> {"n"}, index |-> {"i"}],
             [print |-> {n},
              assert |-> {BinaryExpr(Var("i"), "LT", Num(1))}],
             {n0}, {n}, FALSE)

InitTerm == InitWith(Programs(TermPool, MaxTermStmts), "run")

SpecTerm == InitTerm /\ [][NextRun]_vars /\ WF_vars(NextRun)

\* The characters of the source texts handed to the lexer.
SourceChars == {"/", "*", "a", "0", "1", "\n"}

RECURSIVE Sources(_)
\* Every source text of at most n characters.
Sources(n) ==
    IF n = 0 THEN {<<>>}
    ELSE Sources(n - 1)
         \cup { Append(src, c) : src \in Sources(n - 1), c \in SourceChars }

\* lexer.New on a source text, then GetNextToken called again and again.
InitLex ==
    /\ \E src \in Sources(MaxSrcLen) : lexer = LexerNew(src)
    /\ tokens = <<>>
    /\ scanning = "returned"
    /\ prog = <<>>
    /\ stage = "lex"
    /\ results = <<>>
    /\ symbols = NewSymbolTable
    /\ out = <<>>
    /\ status = "running"
    /\ variables = <<>>
    /\ stack = <<>>
    /\ frames = <<RootFrame(<<>>)>>
    /\ stdin = <<>>
    /\ eof = FALSE
    /\ trace = <<>>
    /\ readLog = <<>>
    /\ loopLog = <<>>
    /\ pieces = <<>>
    /\ parser = NoParser

NextLex == NextToken

SpecLex == InitLex /\ [][NextLex]_vars

\* The characters of the source texts with string literals, escapes,
\* comments and line breaks.
TextChars == {"\"", "\\", "n", "\n", "/", "*"}

RECURSIVE Texts(_)
\* Every such source text of at most n characters.
Texts(n) ==
    IF n = 0 THEN {<<>>}
    ELSE Texts(n - 1)
         \cup { Append(src, c) : src \in Texts(n - 1), c \in TextChars }

\* lexer.New on such a text, then GetNextToken called again and again.
InitLexText ==
    /\ \E src \in Texts(MaxTextLen) : lexer = LexerNew(src)
    /\ tokens = <<>>
    /\ scanning = "returned"
    /\ prog = <<>>
    /\ stage = "lex"
    /\ results = <<>>
    /\ symbols = NewSymbolTable
    /\ out = <<>>
    /\ status = "running"
    /\ variables = <<>>
    /\ stack = <<>>
    /\ frames = <<RootFrame(<<>>)>>
    /\ stdin = <<>>
    /\ eof = FALSE
    /\ trace = <<>>
    /\ readLog = <<>>
    /\ loopLog = <<>>
    /\ pieces = <<>>
    /\ parser = NoParser

NextLexText == NextToken

SpecLexText == InitLexText /\ [][NextLexText]_vars

\* parser.New on the mock lexer of a token list, then Parse.
InitParseWith(lists) ==
    /\ pieces \in lists
    /\ parser = ParserNew(newMockLexer(Positioned(pieces, 1, Len(pieces))))
    /\ stage = "parsing"
    /\ prog = <<>>
    /\ results = <<>>
    /\ symbols = NewSymbolTable
    /\ out = <<>>
    /\ status = "running"
    /\ variables = <<>>
    /\ stack = <<>>
    /\ frames = <<RootFrame(<<>>)>>
    /\ stdin = <<>>
    /\ eof = FALSE
    /\ trace = <<>>
    /\ readLog = <<>>
    /\ loopLog = <<>>
    /\ lexer = LexerNew(<<>>)
    /\ tokens = <<>>
    /\ scanning = "returned"

InitParse == InitParseWith(PieceLists(PieceNames, MaxPieces))

NextParse == ParserParse

SpecParse == InitParse /\ [][NextParse]_vars

\* The same on the lists made of loops and statements.
InitParseLoops == InitParseWith(PieceLists(LoopPieceNames, MaxLoopPieces))

NextParseLoops == ParserParse

SpecParseLoops == InitParseLoops /\ [][NextParseLoops]_vars

(***************************************************************************)
(* Properties of frontEnd.Execute (under Spec).                            *)
(***************************************************************************)
StageOrder == <<"parser", "symboltable", "typechecker">>

CleanStages == { k \in 1..Len(results) : results[k].errors = <<>> }

\* C1: the interpreter runs only if the parser, the symbol table creator
\* and the type checker each returned no error; a stage that returns an
\* error is the last stage invoked, and no statement is executed.
C1_InterpreterOnlyAfterCleanStages ==
    /\ Len(results) <= 3
    /\ \A k \in 1..Len(results) :
         /\ results[k].stage = StageOrder[k]
         /\ k \notin CleanStages =>
              k = Len(results) /\ stage # "run" /\ trace = <<>>
    /\ (stage = "run" \/ trace # <<>>) =>
         Len(results) = 3 /\ CleanStages = 1..3

\* The symbol table creator returned errors: they are printed, Execute has
\* returned, the type checker and the interpreter were not invoked.
C1_StoppedAfterScopeErrors ==
    /\ status = "returned"
    /\ Len(results) = 2
    /\ results[2].errors # <<>>
    /\ out = PrintErrors(<<>>, results[2].errors)
    /\ trace = <<>>

\* C2: after three stages without an error the interpreter never panics on
\* unsupported operands, an unsupported operator or a failed type assertion.
C2_NoInternalErrorAfterCleanStages ==
    (Len(results) = 3 /\ CleanStages = 1..3) =>
        status \notin {"unsupported operands", "unsupported operator",
                       "unsupported unary", "type assertion"}

(***************************************************************************)
(* Properties of SymbolTableCreator.Create (under SpecScope).              *)
(***************************************************************************)
Range(seq) == { seq[k] : k \in 1..Len(seq) }

\* The errors Create returned, once it has.
ScopeErrors ==
    UNION { Range(results[k].errors) :
              k \in { j \in 1..Len(results) : results[j].stage = "symboltable" } }

ScopeDone == \E k \in 1..Len(results) : results[k].stage = "symboltable"

RECURSIVE ExprIdents(_)
\* The Ident nodes of an expression.
ExprIdents(e) ==
    CASE e.node = "BinaryExpr"  -> ExprIdents(e.Left) \cup ExprIdents(e.Right)
      [] e.node = "UnaryExpr"   -> ExprIdents(e.Operand)
      [] e.node = "NullaryExpr" -> ExprIdents(e.Operand)
      [] e.node = "Ident"       -> {e}
      [] OTHER                  -> {}

\* The identifier references a statement makes outside its loop body.
StmtIdents(s) ==
    CASE s.node = "DeclStmt"   -> ExprIdents(s.Expression)
      [] s.node = "AssignStmt" -> {s.Identifier} \cup ExprIdents(s.Expression)
      [] s.node = "ForStmt"    -> {s.Index} \cup ExprIdents(s.Low) \cup ExprIdents(s.High)
      [] s.node = "ReadStmt"   -> {s.TargetIdentifier}
      [] s.node = "PrintStmt"  -> ExprIdents(s.Expression)
      [] s.node = "AssertStmt" -> ExprIdents(s.Expression)

RECURSIVE UndeclaredIdents(_, _)
\* The references to names that no Declare has yet introduced, in traversal
\* order from a set of declared names; a Declare counts for its own
\* initialiser.
UndeclaredIdents(stmts, declared) ==
    IF stmts = <<>> THEN [declared |-> declared, idents |-> {}]
    ELSE LET s    == Head(stmts)
             d1   == IF s.node = "DeclStmt" THEN declared \cup {s.Identifier}
                     ELSE declared
             body == IF s.node = "ForStmt" THEN UndeclaredIdents(s.Statements, d1)
                     ELSE [declared |-> d1, idents |-> {}]
             rest == UndeclaredIdents(Tail(stmts), body.declared)
         IN  [declared |-> rest.declared,
              idents |-> { r \in StmtIdents(s) : r.Id \notin d1 }
                           \cup body.idents \cup rest.idents]

\* C3: every reference to a name that no earlier Declare introduced gets a
\* "used before declaration" error, in whatever statement or expression
\* the reference stands.
C3_EveryUndeclaredReferenceReported ==
    ScopeDone =>
        \A r \in UndeclaredIdents(prog, {}).idents :
            \E e \in ScopeErrors :
                e.msg = "used before declaration" /\ e.name = r.Id /\ e.Pos = r.Pos

RECURSIVE IndexAssigns(_, _)
\* The Assign statements whose target is the index of a loop around them.
IndexAssigns(stmts, indexes) ==
    IF stmts = <<>> THEN {}
    ELSE LET s == Head(stmts)
         IN  (CASE s.node = "AssignStmt" /\ s.Identifier.Id \in indexes -> {s}
                [] s.node = "ForStmt" ->
                     IndexAssigns(s.Statements, indexes \cup {s.Index.Id})
                [] OTHER -> {})
             \cup IndexAssigns(Tail(stmts), indexes)

\* C4: every Assign to the index of a loop whose body it stands in gets a
\* "cannot modify loop index" error, also after a nested loop has ended.
C4_EveryIndexAssignReported ==
    ScopeDone =>
        \A a \in IndexAssigns(prog, {}) :
            \E e \in ScopeErrors :
                e.msg = "cannot modify loop index" /\ e.Pos = a.Pos

(***************************************************************************)
(* Properties of TypeChecker.CheckTypes (under SpecTypes).                 *)
(***************************************************************************)
TypesDone == \E k \in 1..Len(results) : results[k].stage = "typechecker"

\* The errors CheckTypes returned, once it has.
TypeErrors ==
    UNION { Range(results[k].errors) :
              k \in { j \in 1..Len(results) : results[j].stage = "typechecker" } }

RECURSIVE AllStmts(_)
\* The statements of a program, those of loop bodies at any depth included.
AllStmts(stmts) ==
    IF stmts = <<>> THEN {}
    ELSE {Head(stmts)}
         \cup (IF Head(stmts).node = "ForStmt"
               THEN AllStmts(Head(stmts).Statements) ELSE {})
         \cup AllStmts(Tail(stmts))

\* The errors the typing rule of one statement gives with the program's
\* symbol table (for a loop: the rule of its header).
RuleErrors(s) ==
    Range(TcVisitStmt([stack |-> <<>>, symbols |-> symbols,
                       errors |-> <<>>, panicked |-> FALSE], s).errors)

\* C5: the errors of every statement that violates a typing rule, at any
\* depth of loop bodies, are among the errors CheckTypes returns.
C5_EveryStatementChecked ==
    TypesDone =>
        \A s \in AllStmts(prog) : RuleErrors(s) \subseteq TypeErrors

(***************************************************************************)
(* Properties of Interpreter.Run (under SpecRun).                          *)
(***************************************************************************)
\* low, low + 1, ..., high - 1
IndexValues(low, high) ==
    [k \in 1..(IF high > low THEN high - low ELSE 0) |-> low + k - 1]

LoopFrames == { k \in 1..Len(frames) : frames[k].loop }

\* C6: a loop binds its index to low, low + 1, ..., high - 1 in this order,
\* with low and high as evaluated once on entry: a finished loop went through
\* all of them, a running one through those up to its current j < high,
\* whatever its body did to the variables of the bound expressions.
C6_LoopRunsOverBoundsAtEntry ==
    /\ \A k \in 1..Len(loopLog) :
         loopLog[k].bound = IndexValues(loopLog[k].low, loopLog[k].high)
    /\ \A k \in LoopFrames :
         /\ frames[k].high = frames[k].high0
         /\ frames[k].j < frames[k].high0
         /\ frames[k].bound = IndexValues(frames[k].low0, frames[k].j + 1)

\* A loop over 0..n has finished after two iterations although its body
\* has changed n.
C6_BodyChangedTheBound ==
    /\ status = "returned"
    /\ \E k \in 1..Len(loopLog) :
         /\ loopLog[k].bound = <<0, 1>>
         /\ loopLog[k].high = 2
    /\ VariableGet(variables, "n") = IntV(4)

RECURSIVE Lines(_)
\* The lines of an input: each ends with its newline, but for a last one
\* that the end of the input closes.
Lines(data) ==
    IF data = <<>> THEN <<>>
    ELSE LET line == ReadString(data).str
         IN  <<line>> \o Lines(SubSeq(data, Len(line) + 1, Len(data)))

\* C7: the k-th executed read receives the k-th line of the input (nothing,
\* when the input has fewer lines).
C7_ReadsGetSuccessiveLines ==
    \A k \in 1..Len(readLog) :
        readLog[k] = IF k <= Len(Lines(stdin)) THEN Lines(stdin)[k] ELSE <<>>

\* The statement about to be visited divides by zero.
DividesByZero ==
    /\ AtStmt
    /\ \/ /\ Current.node \in {"DeclStmt", "AssignStmt", "PrintStmt", "AssertStmt"}
          /\ Current.Expression # NilExpr
          /\ Evaluate(stack, variables, Current.Expression).panicked
               = "integer divide by zero"
       \/ /\ Current.node = "ForStmt"
          /\ ForBounds(TheInterpreter, Current).panicked = "integer divide by zero"

\* C8: a division by zero ends the run as a runtime failure: one positioned
\* runtime-error message is written to the output and the run exits; no
\* further statement executes.
C8_DivisionByZeroIsARuntimeFailure ==
    [][/\ status = "running"
       /\ DividesByZero =>
            /\ status' = "exit1"
            /\ Len(out') = Len(out) + 1
            /\ out'[Len(out')].kind = "runtime error"
            /\ out'[Len(out')].Pos = NodePosition(Current)]_vars

\* The Assert about to be visited has an expression that evaluates to false.
AssertFails ==
    /\ AtStmt
    /\ Current.node = "AssertStmt"
    /\ Evaluate(stack, variables, Current.Expression).panicked = NoPanic
    /\ EvTop(Evaluate(stack, variables, Current.Expression)) = BoolV(FALSE)

\* C9: an Assert whose expression is false writes one "assert failed"
\* message with its position and ends the run with exit status 1; nothing
\* executes or is written after the run has ended.
C9_FailedAssertEndsTheRun ==
    [][/\ status = "running"
       /\ AssertFails =>
            /\ out' = Append(out, RuntimeError(Current.Pos, "assert failed"))
            /\ status' = "exit1"]_vars

\* An Assert has failed in the second iteration of an inner loop: its
\* message is the last output, a statement of the body and an iteration of
\* the outer loop are left unexecuted.
C9_FailedInsideNestedLoops ==
    /\ status = "exit1"
    /\ Len(out) > 0
    /\ out[Len(out)].msg = "assert failed"
    /\ out[Len(out)].Pos = trace[Len(trace)]
    /\ \E k \in LoopFrames : frames[k].j + 1 < frames[k].high

(***************************************************************************)
(* Properties of the lexer (under SpecLex).  The source texts hold no      *)
(* string literal, so that every /* outside a comment opens a comment.     *)
(***************************************************************************)
\* The smallest index from k on at which `first` is followed by `second`
\* (by anything, when second is ""), or 0.
IndexFrom(src, k, first, second) ==
    LET found == { m \in k..Len(src) :
                     /\ src[m] = first
                     /\ second # "" => (m < Len(src) /\ src[m + 1] = second) }
    IN  IF found = {} THEN 0 ELSE CHOOSE m \in found : \A n \in found : m <= n

RECURSIVE UnterminatedComment(_, _)
\* The index of the /* that opens a block comment which no later */ closes,
\* reading src as code from index k on; 0 when there is none.
UnterminatedComment(src, k) ==
    IF k >= Len(src) THEN 0
    ELSE IF src[k] = "/" /\ src[k + 1] = "/"
    THEN IF IndexFrom(src, k + 2, "\n", "") = 0 THEN 0
         ELSE UnterminatedComment(src, IndexFrom(src, k + 2, "\n", "") + 1)
    ELSE IF src[k] = "/" /\ src[k + 1] = "*"
    THEN IF IndexFrom(src, k + 2, "*", "/") = 0 THEN k
         ELSE UnterminatedComment(src, IndexFrom(src, k + 2, "*", "/") + 2)
    ELSE UnterminatedComment(src, k + 1)

\* The line and column of the character at index k of src.
PositionOf(src, k) ==
    LET newlines == { m \in 1..(k - 1) : src[m] = "\n" }
        last == IF newlines = {} THEN 0
                ELSE CHOOSE m \in newlines : \A n \in newlines : n <= m
    IN  Position(1 + Cardinality(newlines), k - last)

\* C10: on a source with a block comment that is never closed, the lexer
\* returns an ERROR token at the line and column of the opening /*: no call
\* fails to return, and the end of the input is not reported before it.
C10_UnterminatedCommentGivesError ==
    LET src  == lexer.sourceCode
        open == UnterminatedComment(src, 1)
    IN  open > 0 =>
          /\ scanning # "diverged"
          /\ (tokens # <<>> /\ tokens[Len(tokens)].tok.tag = "EOF") =>
                \E k \in 1..Len(tokens) :
                    /\ tokens[k].tok = Token("ERROR", "Unterminated block comment")
                    /\ tokens[k].Pos = PositionOf(src, open)

\* C11: a run of two or more digits that begins with 0 is never returned
\* as an integer literal token: the only integer literal that begins with
\* 0 is the single digit 0.
C11_LeadingZeroIsALexicalError ==
    \A k \in 1..Len(tokens) :
        (tokens[k].tok.tag = "INTEGER_LITERAL" /\ tokens[k].tok.lexeme[1] = "0")
            => tokens[k].tok.lexeme = <<"0">>

\* C12: once a call of GetNextToken has returned an EOF token, every later
\* call returns an EOF token.
C12_EofIsAbsorbing ==
    \A k \in 1..Len(tokens) : \A m \in k..Len(tokens) :
        tokens[k].tok.tag = "EOF" => tokens[m].tok.tag = "EOF"

\* The end of a source with tokens in it has been reported twice.
C12_EofReturnedTwice ==
    /\ Len(tokens) >= 3
    /\ tokens[1].tok.tag # "EOF"
    /\ tokens[Len(tokens) - 1].tok.tag = "EOF"
    /\ tokens[Len(tokens)].tok.tag = "EOF"

\* C13: every token other than EOF carries the line and column of the
\* character at which it begins, lines and columns counted from 1 and the
\* column starting again at 1 after each newline.
C13_TokenCarriesPositionOfFirstChar ==
    \A k \in 1..Len(tokens) :
        tokens[k].tok.tag # "EOF"
            => tokens[k].Pos = PositionOf(lexer.sourceCode, tokens[k].start + 1)

\* A token has been returned after a string literal whose escape stands
\* for a newline: it is on line 1 still, in column 5.
C13_TokenAfterEscape ==
    /\ Len(tokens) = 2
    /\ tokens[1].tok = Token("STRING_LITERAL", <<"\n">>)
    /\ tokens[2].tok.tag # "EOF"
    /\ tokens[2].Pos = Position(1, 5)

(***************************************************************************)
(* Properties of Parse (under SpecParse and SpecParseLoops).               *)
(***************************************************************************)
ParseDone == stage = "parsed"

\* What Parse returned.
ParseResult == results[1]

\* The number of loops that pieces a..b of a list leave open.
OpenLoops(ps, a, b) ==
    Cardinality({ k \in a..b : ps[k] \in {"ForHead", "BadForHead"} })
        - Cardinality({ k \in a..b : ps[k] = "EndFor" })

\* Every "end for ;" of the list closes a loop of the list and every loop
\* is closed.
WellNested(ps) ==
    /\ \A k \in 1..Len(ps) : OpenLoops(ps, 1, k) >= 0
    /\ OpenLoops(ps, 1, Len(ps)) = 0

\* No loop of the list has an empty body.
NoEmptyBody(ps) ==
    \A k \in 1..Len(ps) :
        ps[k] = "ForHead" => (k < Len(ps) /\ ps[k + 1] # "EndFor")

\* A malformed statement: a print with its expression missing, or with
\* two expressions.
Malformed(name) == name \in {"BadPrint", "PrintTwo"}

\* A list of statements, malformed ones among them, and of well-formed
\* loops around statements.
StatementList(ps) ==
    /\ ps # <<>>
    /\ \A k \in 1..Len(ps) :
            ps[k] \in {"Stmt", "BadPrint", "PrintTwo", "ForHead", "EndFor"}
    /\ WellNested(ps)
    /\ NoEmptyBody(ps)

\* The columns of the first and of the last token of piece k.
PieceFirst(ps, k) == Len(TokensUpTo(ps, k - 1)) + 1

PieceLast(ps, k) == Len(TokensUpTo(ps, k))

\* C14: a list of statements gives at most one syntax error for each
\* malformed statement in it.
C14_OneErrorPerMalformedStatement ==
    (ParseDone /\ StatementList(pieces) /\ ParseResult.outcome = "returned")
        => Len(ParseResult.errors)
              <= Cardinality({ k \in 1..Len(pieces) : Malformed(pieces[k]) })

\* C15: every malformed statement of a list of statements has a syntax
\* error at one of its tokens in the list Parse returns, wherever in the
\* list it stands.
C15_EveryMalformedStatementReported ==
    (ParseDone /\ StatementList(pieces) /\ ParseResult.outcome = "returned")
        => \A k \in 1..Len(pieces) :
              Malformed(pieces[k])
                  => \E n \in 1..Len(ParseResult.errors) :
                        /\ ParseResult.errors[n].Pos.Line = 1
                        /\ ParseResult.errors[n].Pos.Column
                              \in PieceFirst(pieces, k)..PieceLast(pieces, k)

\* A loop head, n >= 1 statements "print ;" and "end for ;".
BadPrintLoop(ps) ==
    /\ Len(ps) >= 3
    /\ ps[1] = "ForHead"
    /\ ps[Len(ps)] = "EndFor"
    /\ \A k \in 2..(Len(ps) - 1) : ps[k] = "BadPrint"

\* C16: a loop whose body is n >= 1 statements "print ;" gives exactly n
\* syntax errors, one at the semicolon of each in the order of the text,
\* and none for its "end for ;".
C16_OneErrorPerBadPrintInLoop ==
    (ParseDone /\ BadPrintLoop(pieces))
        => /\ ParseResult.outcome = "returned"
           /\ ParseResult.errors =
                 [k \in 1..(Len(pieces) - 2) |->
                     SyntaxError(Position(1, PieceLast(pieces, k + 1)), "", "SEMI")]
           /\ Len(ParseResult.root) = 1
           /\ ParseResult.root[1].node = "ForStmt"
           /\ ParseResult.root[1].Statements =
                 [k \in 1..(Len(pieces) - 2) |-> ZeroPrintStmt]

\* A loop with three statements "print ;" has been parsed.
C16_ThreeBadPrintsParsed ==
    /\ ParseDone
    /\ pieces = <<"ForHead", "BadPrint", "BadPrint", "BadPrint", "EndFor">>
    /\ Len(ParseResult.errors) = 3

\* A list of well-formed statements and well-formed loops around them.
ValidList(ps) ==
    /\ StatementList(ps)
    /\ \A k \in 1..Len(ps) : ~Malformed(ps[k])

\* C17: a semicolon after a complete list of well-formed statements makes
\* Parse return exactly one error, "expected EOF got SEMI" at the place of
\* that semicolon.
C17_StraySemicolonGivesOneError ==
    (/\ ParseDone
     /\ Len(pieces) >= 2
     /\ pieces[Len(pieces)] = "Semi"
     /\ ValidList(SubSeq(pieces, 1, Len(pieces) - 1)))
        => /\ ParseResult.outcome = "returned"
           /\ ParseResult.errors =
                 <<SyntaxError(Position(1, PieceFirst(pieces, Len(pieces))),
                               "EOF", "SEMI")>>

\* A loop around a statement and then a stray semicolon have been parsed.
C17_SemicolonAfterLoopParsed ==
    /\ ParseDone
    /\ pieces = <<"ForHead", "Stmt", "EndFor", "Semi">>
    /\ Len(ParseResult.errors) = 1

\* The place of the "end for ;" that closes the loop opened by the first
\* piece of the list, 0 if there is none.
CloseOfFirst(ps) ==
    IF \E m \in 2..Len(ps) : OpenLoops(ps, 1, m) = 0
    THEN CHOOSE m \in 2..Len(ps) :
            /\ OpenLoops(ps, 1, m) = 0
            /\ \A n \in 2..(m - 1) : OpenLoops(ps, 1, n) # 0
    ELSE 0

\* A loop with a malformed head, closed by its "end for ;", and nothing
\* but well-formed statements after it.
BrokenLoopThenStatements(ps) ==
    /\ Len(ps) >= 2
    /\ ps[1] = "BadForHead"
    /\ CloseOfFirst(ps) > 0
    /\ \A k \in (CloseOfFirst(ps) + 1)..Len(ps) : ps[k] = "Stmt"

\* What Parse returns for the pieces of the list from a place on, without
\* those before it, every token keeping its position.
ParseAlone(ps, from) ==
    Parse(ParserNew(newMockLexer(Positioned(ps, from, Len(ps)))))

\* What Parse returns after a loop with a malformed head when it goes on
\* behind the "end for ;" of that loop: the error of the head, the empty
\* ForStmt, and what the statements that follow give on their own.
AfterBrokenLoop(ps, rest) ==
    [outcome |-> "returned",
     errors  |-> <<SyntaxError(Position(1, 4), "", "RANGE")>>,
     root    |-> IF CloseOfFirst(ps) = Len(ps) THEN <<ZeroForStmt>>
                 ELSE <<ZeroForStmt>> \o rest.root]

\* C18: after the syntax error in the head of a loop, the tokens up to and
\* including the "end for ;" of that loop are discarded, loops nested in
\* them included: Parse returns that one error, and after the empty
\* ForStmt the statements that follow, as it parses them on their own.
C18_RecoverySkipsToMatchingEndFor ==
    (ParseDone /\ BrokenLoopThenStatements(pieces))
        => /\ ParseResult =
                 AfterBrokenLoop(pieces,
                                 ParseAlone(pieces, CloseOfFirst(pieces) + 1))
           /\ CloseOfFirst(pieces) < Len(pieces)
                 => ParseAlone(pieces, CloseOfFirst(pieces) + 1).errors = <<>>

\* A loop with a malformed head and loops nested two deep in it has been
\* parsed, with a statement after it.
C18_NestedLoopsDiscarded ==
    /\ ParseDone
    /\ pieces = <<"BadForHead", "Nest", "EndFor", "Stmt">>
    /\ Len(ParseResult.root) = 2
    /\ ParseResult.root[2].node = "AssertStmt"

\* A list of well-formed statements and well-formed loops, loops with an
\* empty body among them.
ValidListWithEmptyBodies(ps) ==
    /\ ps # <<>>
    /\ \A k \in 1..Len(ps) : ps[k] \in {"Stmt", "ForHead", "EndFor"}
    /\ WellNested(ps)

\* C19: a loop whose "do" is followed at once by "end for ;" is parsed
\* with no syntax error, and its ForStmt has an empty body.
C19_EmptyLoopBodyAccepted ==
    (ParseDone /\ ValidListWithEmptyBodies(pieces))
        => /\ ParseResult.outcome = "returned"
           /\ ParseResult.errors = <<>>
           /\ pieces = <<"ForHead", "EndFor">>
                 => /\ Len(ParseResult.root) = 1
                    /\ ParseResult.root[1].node = "ForStmt"
                    /\ ParseResult.root[1].Statements = <<>>

\* C20: whatever the token list, Parse comes to its end and returns the
\* statements of the program with a list of errors.
C20_ParseReturns ==
    ParseDone => ParseResult.outcome = "returned"

(***************************************************************************)
(* Further properties of SymbolTableCreator.Create (under SpecLock).       *)
(***************************************************************************)
RECURSIVE VisitOrder(_)
\* The statements of a program in the order VisitStmts reaches them, loop
\* bodies included.
VisitOrder(stmts) ==
    IF stmts = <<>> THEN <<>>
    ELSE <<Head(stmts)>>
         \o (IF Head(stmts).node = "ForStmt"
             THEN VisitOrder(Head(stmts).Statements) ELSE <<>>)
         \o VisitOrder(Tail(stmts))

\* The places in the visit order of the declarations of name.
Declares(order, name) ==
    { k \in 1..Len(order) :
        order[k].node = "DeclStmt" /\ order[k].Identifier = name }

\* The first declaration of name in the visit order.
FirstDeclare(order, name) ==
    CHOOSE k \in Declares(order, name) : \A j \in Declares(order, name) : k <= j

\* The errors Create returned, as a sequence.
ScopeErrorList ==
    results[CHOOSE k \in 1..Len(results) : results[k].stage = "symboltable"].errors

\* C21: a Declare of a name that is already in the table gives exactly one
\* redeclaration error, at the position of that later Declare, and the
\* table keeps the type of the first declaration.
C21_RedeclarationReportedOnceFirstTypeKept ==
    ScopeDone =>
        LET order == VisitOrder(prog)
        IN  \A k \in 1..Len(order) :
                (/\ order[k].node = "DeclStmt"
                 /\ k # FirstDeclare(order, order[k].Identifier))
                => /\ Cardinality({ m \in 1..Len(ScopeErrorList) :
                                     /\ ScopeErrorList[m].msg = "redeclaration"
                                     /\ ScopeErrorList[m].Pos = order[k].Pos }) = 1
                   /\ \A m \in 1..Len(ScopeErrorList) :
                        ScopeErrorList[m].Pos = order[k].Pos
                        => /\ ScopeErrorList[m].msg = "redeclaration"
                           /\ ScopeErrorList[m].name = order[k].Identifier
                   /\ symbols[order[k].Identifier]
                        = order[FirstDeclare(order, order[k].Identifier)].VariableType

\* Create has returned for a program that declares i as an int and later
\* as a string.
C21_RedeclaredWithAnotherType ==
    /\ ScopeDone
    /\ \E j, k \in 1..Len(VisitOrder(prog)) :
         /\ j < k
         /\ VisitOrder(prog)[j].node = "DeclStmt"
         /\ VisitOrder(prog)[k].node = "DeclStmt"
         /\ VisitOrder(prog)[j].Identifier = "i"
         /\ VisitOrder(prog)[k].Identifier = "i"
         /\ VisitOrder(prog)[j].VariableType = "INTEGER"
         /\ VisitOrder(prog)[k].VariableType = "STRING"

\* The loops with the index of assignment a that have ended before a: they
\* stand on an earlier line and a is not in their body.
EndedLoops(a) ==
    { f \in AllStmts(prog) :
        /\ f.node = "ForStmt"
        /\ f.Index.Id = a.Identifier.Id
        /\ f.Pos.Line < a.Pos.Line
        /\ a \notin AllStmts(f.Statements) }

\* The assignments to a former loop index that stand in no loop with that
\* index.
AssignsAfterLoop ==
    { a \in AllStmts(prog) \ IndexAssigns(prog, {}) :
        a.node = "AssignStmt" /\ EndedLoops(a) # {} }

\* C22: the lock on a loop index ends with the loop: an Assign to a former
\* loop index after that loop's body, and inside no other loop with the
\* same index, gets no "cannot modify loop index" error.
C22_NoLockAfterTheLoop ==
    ScopeDone =>
        \A a \in AssignsAfterLoop :
            \A e \in ScopeErrors :
                e.Pos = a.Pos => e.msg # "cannot modify loop index"

\* Create has returned for a program that declares i, assigns to i in the
\* body of a loop over i (an error) and again after the loop.
C22_AssignedInsideAndAfterLoop ==
    /\ ScopeDone
    /\ AssignsAfterLoop # {}
    /\ IndexAssigns(prog, {}) # {}
    /\ prog[1].node = "DeclStmt" /\ prog[1].Identifier = "i"
    /\ \E e \in ScopeErrors : e.msg = "cannot modify loop index"

(***************************************************************************)
(* Properties of TypeChecker.VisitBinaryExpr (under SpecBinary).           *)
(***************************************************************************)
BinaryDone == stage = "checked"

BinaryResult == results[1]

\* The type of an operand of the expression.
OperandType(e) ==
    CASE e.node = "NullaryExpr" /\ e.Operand.node = "NumberOpnd" -> "INTEGER"
      [] e.node = "NullaryExpr" /\ e.Operand.node = "StringOpnd" -> "STRING"
      [] e.node = "Ident"      -> symbols[e.Id]
      [] e.node = "BinaryExpr" -> "BOOLEAN"

\* The operand types an operator is defined for.
Allowed(op) ==
    CASE op = "PLUS" -> {"INTEGER", "STRING"}
      [] op \in {"MINUS", "MULTIPLY", "INTEGER_DIV"} -> {"INTEGER"}
      [] op = "AND" -> {"BOOLEAN"}
      [] op \in {"LT", "EQ"} -> {"INTEGER", "STRING", "BOOLEAN"}

LeftType == OperandType(prog[1].Expression.Left)

RightType == OperandType(prog[1].Expression.Right)

\* C23: for two operands of the same type T the checker reports an error
\* exactly when T is outside the operator's allowed set, and the inferred
\* type is T for + - * / & and BOOLEAN for < and =.
C23_SameTypeOperands ==
    (BinaryDone /\ LeftType = RightType) =>
        LET op == prog[1].Expression.Operator
        IN  /\ ~BinaryResult.panicked
            /\ (BinaryResult.errors # <<>>) <=> (LeftType \notin Allowed(op))
            /\ \A k \in 1..Len(BinaryResult.errors) :
                    BinaryResult.errors[k].msg = "operator not defined for type"
            /\ BinaryResult.stack
                   = <<IF op \in {"LT", "EQ"} THEN "BOOLEAN" ELSE LeftType>>

\* b + b has been checked: two operands of a type that + is not defined
\* for.
C23_PlusOnBooleansChecked ==
    /\ BinaryDone
    /\ prog[1].Expression.Operator = "PLUS"
    /\ LeftType = "BOOLEAN" /\ RightType = "BOOLEAN"
    /\ BinaryResult.errors # <<>>

\* C24: for two operands of different types the checker reports the
\* mismatch, and also an operator-not-defined-for-type error whenever the
\* operator is not defined for the type of the left or of the right operand.
C24_MismatchAndUndefinedOnEitherSide ==
    (BinaryDone /\ LeftType # RightType) =>
        LET op == prog[1].Expression.Operator
        IN  /\ \E k \in 1..Len(BinaryResult.errors) :
                    BinaryResult.errors[k].msg = "unmatched types"
            /\ (LeftType \notin Allowed(op) \/ RightType \notin Allowed(op))
                => \E k \in 1..Len(BinaryResult.errors) :
                       BinaryResult.errors[k].msg = "operator not defined for type"

(***************************************************************************)
(* Properties of the run of an accepted program (under SpecAccepted).      *)
(***************************************************************************)
\* The names whose Declare the interpreter has executed.
DeclaresExecuted ==
    { d.Identifier : d \in { st \in AllStmts(prog) :
                               st.node = "DeclStmt" /\ st.Pos \in Range(trace) } }

\* C25: in the run of a program the three stages accepted, whenever the
\* interpreter is about to evaluate an identifier or to execute a Read or
\* an Assign on a name, the Declare of that name has already executed.
C25_DeclareExecutedBeforeUse ==
    AtStmt => \A id \in StmtIdents(Current) : id.Id \in DeclaresExecuted

\* The runtime type of the values of a declared type.
RuntimeType(symbolType) ==
    CASE symbolType = "INTEGER" -> "int"
      [] symbolType = "STRING"  -> "string"
      [] symbolType = "BOOLEAN" -> "bool"

\* C27: in the run of an accepted program every variable's value has the
\* runtime type of the variable's declared type.
C27_ValuesHaveTheDeclaredType ==
    stage = "run" =>
        \A name \in DOMAIN variables :
            /\ name \in DOMAIN symbols
            /\ variables[name].t = RuntimeType(symbols[name])

\* C28: while the body of a loop is executed the environment holds the
\* current iteration value for the loop's index.
C28_IndexHoldsTheIterationValue ==
    (stage = "run" /\ status = "running") =>
        \A k \in 1..Len(frames) :
            (frames[k].loop /\ frames[k].pc <= Len(frames[k].stmts))
            => VariableGet(variables, frames[k].idx) = IntV(frames[k].j)

(***************************************************************************)
(* Termination of Interpreter.Run (under SpecTerm).                        *)
(***************************************************************************)
\* C30: Run ends, by returning, by a runtime failure or by a panic; and a
\* loop never makes more iterations than its bounds allowed when it was
\* entered.
C30_RunTerminates ==
    /\ <>(status # "running")
    /\ [](\A k \in LoopFrames :
            Len(frames[k].bound) <= frames[k].high0 - frames[k].low0)

\* Run has returned after a loop over 0..n whose body added 1 to n in each
\* of its iterations.
C30_ReturnedAfterGrowingBound ==
    /\ status = "returned"
    /\ Len(loopLog) = 1
    /\ loopLog[1].high = 0 \/ loopLog[1].high = 2
    /\ Len(loopLog[1].bound) = loopLog[1].high
    /\ VariableGet(variables, "n") = IntV(2 * loopLog[1].high)
    /\ loopLog[1].high > 0

(***************************************************************************)
(* Termination of Lexer.GetNextToken (under SpecLex).                      *)
(***************************************************************************)
\* C26: every call of GetNextToken returns: no call runs one of the
\* lexer's loops for ever.
C26_EveryGetNextTokenCallReturns == scanning # "diverged"

(***************************************************************************)
(* Lexer and parser together (under SpecFront).                            *)
(***************************************************************************)
ErrorTokens == { k \in 1..Len(tokens) : tokens[k].tok.tag = "ERROR" }

====
